---- MODULE Spec2Model ----
(***************************************************************************)
(* A model of src/utils/optimization.py: CacheEntry, MemoryCache,          *)
(* FileCache, RateLimiter and the cached / rate_limited wrappers.          *)
(*                                                                         *)
(* Time is the integer clock `now` (time.time()); Tick advances it.  Every *)
(* method of MemoryCache, FileCache and RateLimiter runs under the         *)
(* object's RLock, so each is one atomic action, except where a            *)
(* specification below splits it into steps to examine the lock itself.    *)
(* `last` records the operation that was executed last and what it         *)
(* returned.                                                               *)
(***************************************************************************)
EXTENDS Integers, Sequences, FiniteSets

\* ------------------------------------------------------------------ bounds
\* The clock runs from 0 to MaxTime.
MaxTime == 2
\* CacheEntry.hits is an unbounded counter: a hit is taken only below MaxHits.
MaxHits == 1
\* The clock of the RateLimiter specifications runs from 0 to MaxClock.
MaxClock == 3
\* The acquire calls whose results the history rl_log keeps.
MaxLog == 5
\* Wrapped calls made through rate_limited in one behaviour.
MaxCalls == 3
\* stop() calls on one TaskScheduler in one behaviour.
MaxStops == 1
\* Entries of TaskScheduler.jobs in one behaviour.
MaxJobs == 2
\* FileCache instances created on one cache_dir in one behaviour.
MaxInstances == 2
\* Expired entries a global cache holds unswept.
MaxExpired == 2
\* initialize_optimization: add_job(cleanup_caches, interval_hours=6).
CleanupIntervalHours == 6
\* stop(): self._thread.join(timeout=5), in seconds.
JoinTimeout == 5
\* _run_scheduler: time.sleep(60), in seconds.
PollSleep == 60
\* MemoryCache.default_ttl / FileCache.default_ttl of the instance modelled.
default_ttl == 2

\* ------------------------------------------------------------------ inputs
Keys == {"a", "b", "c"}
\* The keys the FileCache behaviours use (FileCache holds any number of keys).
FileKeys == {"a", "b"}
\* Python's None: the miss returned by get.
None == "None"
Values == {"v1", "v2"}
\* The ttl argument of set; 0 stands for both falsy arguments, None and 0.
TtlArgs == {0, 1}
\* max_size of the MemoryCache instance modelled.
MaxSizes == {1, 2}
Stores == {"memory", "file"}
NoKey == "-"
\* RateLimiter(requests_per_window, window_seconds) instances: one token per
\* two seconds, and two tokens per three seconds (a fractional refill).
Limiters == {<<1, 2>>, <<2, 3>>}
\* The token counts requested of acquire and wait_time.
Requests == {0, 1, 2, 3}
Threads == {"t1", "t2", "t3"}
NoThread == "-"
\* The callers of a function wrapped by cached, the keys their arguments
\* hash to and what the wrapped function does: return None, return a value,
\* or raise.
Callers == {"c1", "c2"}
NoCaller == "-"
CachedKeys == {"a", "b"}
Results == {None, "v1"}
Raises == "raise"
\* The callers of a function wrapped by rate_limited.
GateCallers == {"w1", "w2"}
\* The threads that call start, stop and add_job on one TaskScheduler, the
\* functions they register, and how an execution of a function ends.
SchedCallers == {"s1", "s2"}
Jobs == {"j1", "j2"}
Intervals == {0, 1}
\* The registered functions that raise when they are run; the others return.
Raising == {"j2"}
TSInstances == {"A", "B"}
Slots == {"t1", "t2"}
NoWorker == 0
\* A start() spawns a worker only after __init__ or after a stop().
Workers == 1..(MaxStops + 1)

VARIABLES
    now,            \* time.time()
    store,          \* which cache the behaviour exercises: "memory" or "file"
    max_size,       \* MemoryCache.max_size
    cache,          \* MemoryCache._cache: key -> CacheEntry
    access_order,   \* MemoryCache._access_order: deque of keys, oldest first
    files,          \* FileCache: the *.cache files of cache_dir, key -> content
    recency,        \* history: key -> rank of its latest successful get or set
    last,           \* the operation executed last, with its arguments and result
    requests_per_window,  \* RateLimiter.requests_per_window (the capacity)
    window_seconds, \* RateLimiter.window_seconds
    tokens,         \* RateLimiter.tokens, counted in 1/window_seconds of a token
    last_refill,    \* RateLimiter.last_refill
    rl_last,        \* the RateLimiter call executed last, with its result
    rl_log,         \* history: the results of the acquire calls, in order
    rl_lock,        \* RateLimiter._lock: the thread that holds it, or NoThread
    tpc,            \* per thread: where it stands in its acquire call
    tres,           \* per thread: what its acquire call returned
    cached_ttl,     \* cached(ttl=...): the decorator's ttl, 0 for None
    cpc,            \* per caller of a cached function: where its call stands
    cl_last,        \* the step of a cached call executed last
    limiter_found,  \* rate_limited: getattr(limiters, limiter_name) is there
    wpc,            \* per caller of a rate_limited function: where it stands
    calls,          \* history: wrapped calls made through rate_limited
    invoked,        \* history: times the rate_limited function was run
    refused,        \* history: wrapped calls that raised "Rate limit exceeded"
    wl_last,        \* the step of a rate_limited call executed last
    running,        \* TaskScheduler.running
    thread,         \* TaskScheduler._thread: the worker spawned last, or NoWorker
    workers,        \* per worker thread: where it stands in _run_scheduler
    jobs,           \* TaskScheduler.jobs: the run_immediately functions
    registered,     \* schedule: the functions registered with every(n).hours.do
    due,            \* schedule: the registered functions whose interval has elapsed
    polled,         \* history: what the last schedule.run_pending() did
    sched_lock,     \* TaskScheduler._lock: the caller that holds it, or NoCaller
    spc,            \* per caller: where it stands in start or stop
    join_left,      \* stop: seconds left of the join's timeout
    stops,          \* history: the stop() calls made
    instance,       \* FileCache: the instance in use, numbered as created
    wrote,          \* history: key -> what the last set of it wrote, and who
    fw,             \* FileCache.set in progress: where it stands, its arguments
    cfg,            \* the Config object: what its attributes hold, or Absent
    module,         \* optimization.py: not imported, imported, or import failed
    made,           \* _memory_cache / _file_cache: the global instance exists
    expired,        \* per global cache: entries whose ttl has run out, unswept
    swept,          \* history: what the last run of cleanup_caches did
    maint,          \* the registration of cleanup_caches with the scheduler
    ts,             \* the TaskScheduler instances of the process: of each
                    \* its running, its jobs and its worker threads
    added,          \* history: <<function, instance>> of the add_job calls
                    \* that registered a periodic job
    pollBy,         \* history: <<instance, thread>> of the last poll
    scheduler,      \* the module global _scheduler: NoInstance, or an instance
    gpc,            \* per thread: where it stands in get_scheduler(), and
                    \* the instance it has constructed
    got,            \* history: per thread, what get_scheduler() returned last
    built           \* history: the TaskScheduler instances constructed

cacheVars == <<store, max_size, cache, access_order, files, recency, last>>

limiterVars ==
    <<requests_per_window, window_seconds, tokens, last_refill, rl_last, rl_log>>

threadVars == <<rl_lock, tpc, tres>>

cachedVars == <<cached_ttl, cpc, cl_last>>

gateVars == <<limiter_found, wpc, calls, invoked, refused, wl_last>>

schedVars ==
    <<running, thread, workers, jobs, registered, due, polled, sched_lock,
      spc, join_left, stops>>

dirVars == <<instance, wrote>>

writeVars == <<fw>>

maintVars == <<cfg, module, made, expired, swept, maint>>
instVars == <<ts, added, pollBy>>
accVars == <<scheduler, gpc, got, built>>

\* ------------------------------------------------------------- CacheEntry
\* CacheEntry(value, timestamp, ttl, hits = 0); `valid` is FALSE for file
\* content that does not unpickle to a CacheEntry.
CacheEntry(v, t, ttl) ==
    [valid |-> TRUE, value |-> v, timestamp |-> t, ttl |-> ttl, hits |-> 0]

\* A mutation of is_expired: the expiry test is one tick late.
IsExpiredLate(e, t) == t - e.timestamp > e.ttl + 1

\* A mutation of is_expired: an entry is expired once its age reaches ttl.
IsExpiredAtTtl(e, t) == t - e.timestamp >= e.ttl

\* A mutation of is_expired: the age is taken from the clock's origin.
IsExpiredNoStamp(e, t) == t > e.ttl

\* CacheEntry.is_expired at clock t.
is_expired(e, t) == t - e.timestamp > e.ttl

\* `ttl or self.default_ttl`
TtlOrDefault(ttlArg) == IF ttlArg = 0 THEN default_ttl ELSE ttlArg

\* ------------------------------------------------------------ sequences
InSeq(s, k) == \E i \in 1..Len(s) : s[i] = k

\* deque.remove(k): removes the first occurrence of k.
RECURSIVE RemoveFirst(_, _)
RemoveFirst(s, k) ==
    IF s = <<>> THEN <<>>
    ELSE IF Head(s) = k THEN Tail(s)
    ELSE <<Head(s)>> \o RemoveFirst(Tail(s), k)

\* A mutation of Discard: the key stays in the access order.
DiscardNothing(s, k) == s

\* `if key in self._access_order: self._access_order.remove(key)`
Discard(s, k) == IF InSeq(s, k) THEN RemoveFirst(s, k) ELSE s

\* A mutation of MoveToEnd: a hit leaves the access order alone.
KeepInPlace(s, k) == s

\* get's "move to end (most recently used)".
MoveToEnd(s, k) == Append(Discard(s, k), k)

Without(f, k) == [j \in (DOMAIN f) \ {k} |-> f[j]]

With(f, k, e) == [j \in (DOMAIN f) \cup {k} |-> IF j = k THEN e ELSE f[j]]

Empty == [j \in {} |-> 0]

\* ------------------------------------------------------------- history
\* recency ranks the keys by their latest successful get or set: Touch gives
\* k the highest rank, and the ranks are kept dense (1..n).
RankOf(r, k) == Cardinality({j \in DOMAIN r : r[j] <= r[k]})

Dense(r) == [k \in DOMAIN r |-> RankOf(r, k)]

Touch(r, k) ==
    Dense([j \in (DOMAIN r) \cup {k} |->
              IF j = k THEN Cardinality(DOMAIN r) + 2 ELSE r[j]])

Forget(r, ks) == Dense([j \in (DOMAIN r) \ ks |-> r[j]])

\* The record of an operation: its name, key, value and ttl arguments, what it
\* returned (ret, or the count n), the keys it evicted and the branch it took.
Op(op, k, v, ttlArg, ret, ev, n, br) ==
    [op |-> op, key |-> k, val |-> v, ttl |-> ttlArg, ret |-> ret,
     evicted |-> ev, n |-> n, branch |-> br]

Did(op, k, ret, br) == Op(op, k, None, 0, ret, {}, 0, br)

\* ------------------------------------------------------------ MemoryCache
\* A mutation of Full: the eviction loop runs only above max_size.
FullOverOnly(c) == Cardinality(DOMAIN c) > max_size

\* set's loop condition `len(self._cache) >= self.max_size`.
Full(c) == Cardinality(DOMAIN c) >= max_size

\* A mutation of EvictLoop: a full mapping gives up an expired entry, if it
\* holds one, before the head of the access order.
EvictExpiredFirst(c, o, ev) ==
    LET old == {k \in DOMAIN c : is_expired(c[k], now)}
    IN IF Full(c) /\ old # {}
       THEN LET k == CHOOSE x \in old : TRUE
            IN <<Without(c, k), Discard(o, k), ev \cup {k}>>
       ELSE IF Full(c) /\ o # <<>>
       THEN <<Without(c, Head(o)), Tail(o), ev \cup {Head(o)}>>
       ELSE <<c, o, ev>>

\* set's eviction loop: pops the head of the access order and deletes it from
\* the mapping while the mapping is full; stops on an empty order.
\* Yields <<mapping, order, evicted keys>>.
RECURSIVE EvictLoop(_, _, _)
EvictLoop(c, o, ev) ==
    IF Full(c) /\ o # <<>>
    THEN EvictLoop(IF Head(o) \in DOMAIN c THEN Without(c, Head(o)) ELSE c,
                   Tail(o),
                   IF Head(o) \in DOMAIN c THEN ev \cup {Head(o)} ELSE ev)
    ELSE <<c, o, ev>>

MemGet(k) ==
    /\ store = "memory"
    /\ IF k \in DOMAIN cache
       THEN IF ~ is_expired(cache[k], now)
            THEN /\ cache[k].hits < MaxHits
                 /\ cache' = [cache EXCEPT ![k].hits = @ + 1]
                 /\ access_order' = MoveToEnd(access_order, k)
                 /\ recency' = Touch(recency, k)
                 /\ last' = Did("get", k, cache[k].value, "hit")
            ELSE /\ cache' = Without(cache, k)
                 /\ access_order' = Discard(access_order, k)
                 /\ recency' = Forget(recency, {k})
                 /\ last' = Did("get", k, None, "expired")
       ELSE /\ last' = Did("get", k, None, "absent")
            /\ UNCHANGED <<cache, access_order, recency>>
    /\ UNCHANGED <<now, store, max_size, files>>

MemSet(k, v, ttlArg) ==
    /\ store = "memory"
    /\ LET o1 == IF k \in DOMAIN cache THEN Discard(access_order, k)
                                       ELSE access_order
           r  == EvictLoop(cache, o1, {})
       IN /\ cache' = With(r[1], k, CacheEntry(v, now, TtlOrDefault(ttlArg)))
          /\ access_order' = Append(r[2], k)
          /\ recency' = Touch(Forget(recency, r[3]), k)
          /\ last' = Op("set", k, v, ttlArg, None, r[3], 0, "stored")
    /\ UNCHANGED <<now, store, max_size, files>>

MemDelete(k) ==
    /\ store = "memory"
    /\ IF k \in DOMAIN cache
       THEN /\ cache' = Without(cache, k)
            /\ access_order' = Discard(access_order, k)
            /\ recency' = Forget(recency, {k})
            /\ last' = Did("delete", k, "True", "found")
       ELSE /\ last' = Did("delete", k, "False", "absent")
            /\ UNCHANGED <<cache, access_order, recency>>
    /\ UNCHANGED <<now, store, max_size, files>>

MemClear ==
    /\ store = "memory"
    /\ cache' = Empty
    /\ access_order' = <<>>
    /\ recency' = Empty
    /\ last' = Did("clear", NoKey, None, "-")
    /\ UNCHANGED <<now, store, max_size, files>>

RECURSIVE DiscardAll(_, _)
DiscardAll(s, ks) ==
    IF ks = {} THEN s
    ELSE LET k == CHOOSE x \in ks : TRUE
         IN DiscardAll(Discard(s, k), ks \ {k})

MemCleanupExpired ==
    /\ store = "memory"
    /\ LET expired_keys == {k \in DOMAIN cache : is_expired(cache[k], now)}
       IN /\ cache' = [k \in (DOMAIN cache) \ expired_keys |-> cache[k]]
          /\ access_order' = DiscardAll(access_order, expired_keys)
          /\ recency' = Forget(recency, expired_keys)
          /\ last' = Op("cleanup_expired", NoKey, None, 0, None, {},
                        Cardinality(expired_keys), "-")
    /\ UNCHANGED <<now, store, max_size, files>>

\* -------------------------------------------------------------- FileCache
\* File content that pickle.load rejects.
Corrupt == [valid |-> FALSE, value |-> None, timestamp |-> 0, ttl |-> 0,
            hits |-> 0]

\* get's except handler, were it to leave the file where it is.
KeepBad(f, k) == f

\* get's except handler: file_path.unlink(missing_ok=True)
UnlinkBad(f, k) == Without(f, k)

FileGet(k) ==
    /\ store = "file"
    /\ IF k \notin DOMAIN files
       THEN /\ last' = Did("get", k, None, "absent")
            /\ UNCHANGED files
       ELSE IF ~ files[k].valid
       THEN /\ files' = UnlinkBad(files, k)
            /\ last' = Did("get", k, None, "corrupt")
       ELSE IF ~ is_expired(files[k], now)
       THEN /\ files[k].hits < MaxHits
            /\ files' = [files EXCEPT ![k].hits = @ + 1]
            /\ last' = Did("get", k, files[k].value, "hit")
       ELSE /\ files' = Without(files, k)
            /\ last' = Did("get", k, None, "expired")
    /\ UNCHANGED <<now, store, max_size, cache, access_order, recency>>

FileSet(k, v, ttlArg) ==
    /\ store = "file"
    /\ files' = With(files, k, CacheEntry(v, now, TtlOrDefault(ttlArg)))
    /\ last' = Op("set", k, v, ttlArg, None, {}, 0, "stored")
    /\ UNCHANGED <<now, store, max_size, cache, access_order, recency>>

FileDelete(k) ==
    /\ store = "file"
    /\ IF k \in DOMAIN files
       THEN /\ files' = Without(files, k)
            /\ last' = Did("delete", k, "True", "found")
       ELSE /\ last' = Did("delete", k, "False", "absent")
            /\ UNCHANGED files
    /\ UNCHANGED <<now, store, max_size, cache, access_order, recency>>

FileClear ==
    /\ store = "file"
    /\ files' = Empty
    /\ last' = Did("clear", NoKey, None, "-")
    /\ UNCHANGED <<now, store, max_size, cache, access_order, recency>>

FileCleanupExpired ==
    /\ store = "file"
    /\ LET removed == {k \in DOMAIN files :
                          ~ files[k].valid \/ is_expired(files[k], now)}
       IN /\ files' = [k \in (DOMAIN files) \ removed |-> files[k]]
          /\ last' = Op("cleanup_expired", NoKey, None, 0, None, {},
                        Cardinality(removed), "-")
    /\ UNCHANGED <<now, store, max_size, cache, access_order, recency>>

\* ---------------------------------------------------- FileCache instances
\* FileCache.__init__ on a directory that would start out empty.
DirFresh(f) == Empty

\* FileCache.__init__: cache_dir.mkdir(exist_ok=True) leaves an existing
\* directory and its files as they are.
DirAfterInit(f) == f

\* FileCache(cache_dir): another instance on the same directory, used from
\* now on.  An instance holds the path, default_ttl and a lock, no entry.
NewFileCache ==
    /\ store = "file"
    /\ instance < MaxInstances
    /\ instance' = instance + 1
    /\ files' = DirAfterInit(files)
    /\ last' = Did("init", NoKey, None, "-")
    /\ UNCHANGED <<now, store, max_size, cache, access_order, recency, wrote>>

\* The file of k is written, truncated or made unreadable from outside the
\* cache: open or pickle.load fails on it, or what it holds is no CacheEntry.
Damage(k) ==
    /\ store = "file"
    /\ files' = With(files, k, Corrupt)
    /\ wrote' = Without(wrote, k)
    /\ last' = Did("damage", k, None, "-")
    /\ UNCHANGED <<now, store, max_size, cache, access_order, recency,
                   instance>>

\* history: set(k, v, ttl) by the instance in use, the entry living until
\* timestamp + ttl.
Wrote(k, v, ttlArg) ==
    /\ wrote' = With(wrote, k, [value |-> v, by |-> instance,
                                until |-> now + TtlOrDefault(ttlArg)])
    /\ UNCHANGED instance

\* history: delete and clear remove what was written.
Forgot(S) ==
    /\ wrote' = [j \in (DOMAIN wrote) \ S |-> wrote[j]]
    /\ UNCHANGED instance

DirInit ==
    /\ instance = 1
    /\ wrote = Empty

\* ------------------------------------------------- FileCache.set in steps
\* set's position: the entry it has built and the file it has opened.
Writing(k, e) == [pc |-> "dump", key |-> k, entry |-> e]

NotWriting == [pc |-> "idle", key |-> NoKey, entry |-> Corrupt]

\* What open(file_path, 'wb') leaves of the file before anything is written,
\* and what a pickle.dump that fails part-way leaves: pickle.load fails on it.
Truncated == Corrupt

\* set's except handler, were it to let the exception through.
WriteErrorRaised == Raises

\* set's except handler: logger.error(...), and set returns None.
WriteErrorLogged == None

\* set(k, v, ttl): the CacheEntry is built and open(file_path, 'wb')
\* succeeds, which empties the file.
FileSetOpen(k, v, ttlArg) ==
    /\ store = "file"
    /\ fw.pc = "idle"
    /\ fw' = Writing(k, CacheEntry(v, now, TtlOrDefault(ttlArg)))
    /\ files' = With(files, k, Truncated)
    /\ last' = Op("set", k, v, ttlArg, None, {}, 0, "opened")
    /\ UNCHANGED <<now, store, max_size, cache, access_order, recency,
                   instance, wrote>>

\* set(k, v, ttl): open(file_path, 'wb') raises (the directory is gone or
\* not writable); the file is not touched, the error is logged.
FileSetOpenFails(k, v, ttlArg) ==
    /\ store = "file"
    /\ fw.pc = "idle"
    /\ last' = Op("set", k, v, ttlArg, WriteErrorLogged, {}, 0, "open_failed")
    /\ UNCHANGED <<now, store, max_size, cache, access_order, recency, files,
                   instance, wrote, fw>>

\* set: pickle.dump(entry, f) writes the whole entry, and set returns.
FileSetDump ==
    /\ store = "file"
    /\ fw.pc = "dump"
    /\ files' = With(files, fw.key, fw.entry)
    /\ wrote' = With(wrote, fw.key,
                     [value |-> fw.entry.value, by |-> instance,
                      until |-> fw.entry.timestamp + fw.entry.ttl])
    /\ fw' = NotWriting
    /\ last' = Op("set", fw.key, fw.entry.value, last.ttl, None, {}, 0,
                  "stored")
    /\ UNCHANGED <<now, store, max_size, cache, access_order, recency,
                   instance>>

\* set: pickle.dump raises (a value that cannot be pickled, a full disk):
\* the file stays as the failed write left it, the error is logged.
FileSetDumpFails ==
    /\ store = "file"
    /\ fw.pc = "dump"
    /\ files' = With(files, fw.key, Truncated)
    /\ fw' = NotWriting
    /\ last' = Op("set", fw.key, fw.entry.value, last.ttl, WriteErrorLogged,
                  {}, 0, "write_failed")
    /\ UNCHANGED <<now, store, max_size, cache, access_order, recency,
                   instance, wrote>>

\* The clock moves while set is between open and dump.
WriteTick ==
    /\ fw.pc = "dump"
    /\ now < MaxTime
    /\ now' = now + 1
    /\ UNCHANGED <<cacheVars, dirVars, writeVars>>

WriteInit == fw = NotWriting

\* ------------------------------------------------------------------ clock
Tick ==
    /\ now < MaxTime
    /\ now' = now + 1
    /\ last' = Did("tick", NoKey, None, "-")
    /\ UNCHANGED <<store, max_size, cache, access_order, files, recency>>

\* ------------------------------------------------------------ RateLimiter
Min(a, b) == IF a <= b THEN a ELSE b

\* The capacity, in the unit of `tokens`.
Capacity == requests_per_window * window_seconds

\* A request of n tokens, in the unit of `tokens`.
Cost(n) == n * window_seconds

\* A mutation of Refilled: the rate is the integer quotient
\* requests_per_window // window_seconds.
RefilledIntegerRate(t) ==
    Min(Capacity,
        tokens + (t - last_refill) * (requests_per_window \div window_seconds)
                                   * window_seconds)

\* A mutation of Refilled: the refill is not clamped to the capacity.
RefilledNoClamp(t) == tokens + (t - last_refill) * requests_per_window

\* acquire's refill at clock t:
\*   elapsed = now - last_refill
\*   min(requests_per_window,
\*       tokens + elapsed * (requests_per_window / window_seconds))
Refilled(t) ==
    Min(Capacity, tokens + (t - last_refill) * requests_per_window)

\* The record of a RateLimiter call: acquire's result ok and the balance it
\* refilled to; wait_time's result wait, counted in 1/requests_per_window
\* of a second.
Call(op, n, ok, refilled, wait) ==
    [op |-> op, n |-> n, t |-> now, ok |-> ok, refilled |-> refilled,
     wait |-> wait]

\* A mutation of AcquireBody: a refused request takes what the bucket holds.
AcquireTakesTheRest(n) ==
    /\ last_refill' = now
    /\ IF Refilled(now) >= Cost(n)
       THEN /\ tokens' = Refilled(now) - Cost(n)
            /\ rl_last' = Call("acquire", n, TRUE, Refilled(now), 0)
       ELSE /\ tokens' = 0
            /\ rl_last' = Call("acquire", n, FALSE, Refilled(now), 0)
    /\ UNCHANGED <<requests_per_window, window_seconds>>

\* A mutation of AcquireBody: a refused request stores the refilled balance
\* and leaves last_refill where it was.
AcquireKeepsLastRefill(n) ==
    /\ IF Refilled(now) >= Cost(n)
       THEN /\ tokens' = Refilled(now) - Cost(n)
            /\ last_refill' = now
            /\ rl_last' = Call("acquire", n, TRUE, Refilled(now), 0)
       ELSE /\ tokens' = Refilled(now)
            /\ last_refill' = last_refill
            /\ rl_last' = Call("acquire", n, FALSE, Refilled(now), 0)
    /\ UNCHANGED <<requests_per_window, window_seconds>>

\* RateLimiter.acquire(n), the limiter's variables only.
AcquireBody(n) ==
    /\ last_refill' = now
    /\ IF Refilled(now) >= Cost(n)
       THEN /\ tokens' = Refilled(now) - Cost(n)
            /\ rl_last' = Call("acquire", n, TRUE, Refilled(now), 0)
       ELSE /\ tokens' = Refilled(now)
            /\ rl_last' = Call("acquire", n, FALSE, Refilled(now), 0)
    /\ UNCHANGED <<requests_per_window, window_seconds>>

Acquire(n) ==
    /\ AcquireBody(n)
    /\ UNCHANGED <<now, rl_log>>

\* A mutation of WaitNeeded: the tokens held are not set off against the
\* request.
WaitForAll(n) == IF tokens >= Cost(n) THEN 0 ELSE Cost(n)

\* wait_time's result: (n - tokens) * (window_seconds / requests_per_window)
\* seconds, counted in 1/requests_per_window of a second.
WaitNeeded(n) == IF tokens >= Cost(n) THEN 0 ELSE Cost(n) - tokens

WaitTime(n) ==
    /\ rl_last' = Call("wait_time", n, FALSE, tokens, WaitNeeded(n))
    /\ UNCHANGED <<now, requests_per_window, window_seconds, tokens,
                   last_refill, rl_log>>

Reset ==
    /\ tokens' = Capacity
    /\ last_refill' = now
    /\ rl_last' = Call("reset", 0, FALSE, Capacity, 0)
    /\ UNCHANGED <<now, requests_per_window, window_seconds, rl_log>>

ClockTick ==
    /\ now < MaxClock
    /\ now' = now + 1
    /\ rl_last' = Call("tick", 0, FALSE, tokens, 0)
    /\ UNCHANGED <<requests_per_window, window_seconds, tokens, last_refill,
                   rl_log>>

\* RateLimiter.__init__ at clock 0.
LimiterInit ==
    /\ \E l \in Limiters :
          /\ requests_per_window = l[1]
          /\ window_seconds = l[2]
          /\ tokens = l[1] * l[2]
    /\ last_refill = 0
    /\ rl_last = [op |-> "init", n |-> 0, t |-> 0, ok |-> FALSE,
                  refilled |-> 0, wait |-> 0]
    /\ rl_log = <<>>

\* A burst: acquire(1) calls and the clock, the results kept in rl_log.
BurstAcquire ==
    /\ Len(rl_log) < MaxLog
    /\ AcquireBody(1)
    /\ rl_log' = Append(rl_log, [t |-> now, ok |-> rl_last'.ok])
    /\ UNCHANGED now

\* acquire(n), the call kept in rl_log with the clock, the request and the
\* result.
LoggedAcquire(n) ==
    /\ Len(rl_log) < MaxLog
    /\ AcquireBody(n)
    /\ rl_log' = Append(rl_log, [t |-> now, n |-> n, ok |-> rl_last'.ok])
    /\ UNCHANGED now

BurstTick ==
    /\ ClockTick

\* ------------------------------------- RateLimiter.acquire, step by step
\* acquire(1) called by several threads: `with self._lock:` is taken and
\* released as its own steps, and the refill, the test and the deduction
\* are the steps in between.
\* A mutation of CanEnter: the lock excludes nobody.
EnterAnyway(t) == TRUE

\* threading.RLock: free, or held by the thread itself.
CanEnter(t) == rl_lock = NoThread \/ rl_lock = t

Goto(t, pc) == tpc' = [tpc EXCEPT ![t] = pc]

ThreadCall(t) ==
    /\ tpc[t] = "idle"
    /\ Goto(t, "lock")
    /\ UNCHANGED <<now, limiterVars, rl_lock, tres>>

ThreadLock(t) ==
    /\ tpc[t] = "lock"
    /\ CanEnter(t)
    /\ rl_lock' = t
    /\ Goto(t, "refill")
    /\ UNCHANGED <<now, limiterVars, tres>>

ThreadRefill(t) ==
    /\ tpc[t] = "refill"
    /\ tokens' = Refilled(now)
    /\ last_refill' = now
    /\ Goto(t, "test")
    /\ UNCHANGED <<now, requests_per_window, window_seconds, rl_last, rl_log,
                   rl_lock, tres>>

ThreadTest(t) ==
    /\ tpc[t] = "test"
    /\ IF tokens >= Cost(1)
       THEN /\ Goto(t, "deduct")
            /\ UNCHANGED <<rl_lock, tres>>
       ELSE /\ Goto(t, "done")
            /\ tres' = [tres EXCEPT ![t] = "False"]
            /\ rl_lock' = NoThread
    /\ UNCHANGED <<now, limiterVars>>

ThreadDeduct(t) ==
    /\ tpc[t] = "deduct"
    /\ tokens' = tokens - Cost(1)
    /\ tres' = [tres EXCEPT ![t] = "True"]
    /\ rl_lock' = NoThread
    /\ Goto(t, "done")
    /\ UNCHANGED <<now, requests_per_window, window_seconds, last_refill,
                   rl_last, rl_log>>

ThreadTick ==
    /\ ClockTick
    /\ UNCHANGED threadVars

ThreadInit ==
    /\ rl_lock = NoThread
    /\ tpc = [t \in Threads |-> "idle"]
    /\ tres = [t \in Threads |-> "-"]

\* ------------------------------------------------------------------ cached
\* cache.get(key) and cache.set(key, result, ttl) on the cache the decorator
\* chose (use_file_cache).
StoreGet(k) == MemGet(k) \/ FileGet(k)

StoreSet(k, v, ttlArg) == MemSet(k, v, ttlArg) \/ FileSet(k, v, ttlArg)

Step(c, step, k, outcome, v) ==
    [caller |-> c, step |-> step, key |-> k, outcome |-> outcome, value |-> v]

Frame(pc, k, w) == [pc |-> pc, key |-> k, will |-> w]

Idle == Frame("idle", NoKey, None)

\* What the wrapper does with the cache when func raises, were the result
\* put in the cache all the same.
RaiseStoresNone(k) == StoreSet(k, None, cached_ttl)

\* func raises: the exception leaves the wrapper before cache.set is reached.
OnRaise(k) == UNCHANGED <<now, cacheVars>>

\* A mutation of CachedLookup: whatever entry get found is served, a stored
\* None as well.
CachedLookupServesNone(c, k, w) ==
    /\ cpc[c].pc = "idle"
    /\ StoreGet(k)
    /\ IF last'.branch = "hit"
       THEN /\ cpc' = cpc
            /\ cl_last' = Step(c, "lookup", k, "served", last'.ret)
       ELSE /\ cpc' = [cpc EXCEPT ![c] = Frame("run", k, w)]
            /\ cl_last' = Step(c, "lookup", k, "miss", None)
    /\ UNCHANGED cached_ttl

\* The wrapper's lookup: result = cache.get(key); a result that is not None
\* is returned, any other sends the call on to func.  w is what func will do
\* if it is run.
CachedLookup(c, k, w) ==
    /\ cpc[c].pc = "idle"
    /\ StoreGet(k)
    /\ IF last'.ret # None
       THEN /\ cpc' = cpc
            /\ cl_last' = Step(c, "lookup", k, "served", last'.ret)
       ELSE /\ cpc' = [cpc EXCEPT ![c] = Frame("run", k, w)]
            /\ cl_last' = Step(c, "lookup", k, "miss", None)
    /\ UNCHANGED cached_ttl

\* result = func(*args, **kwargs) raises.
CachedRaise(c) ==
    /\ cpc[c].pc = "run"
    /\ cpc[c].will = Raises
    /\ OnRaise(cpc[c].key)
    /\ cpc' = [cpc EXCEPT ![c] = Idle]
    /\ cl_last' = Step(c, "raise", cpc[c].key, "raised", None)
    /\ UNCHANGED cached_ttl

\* result = func(*args, **kwargs) returns.
CachedReturn(c) ==
    /\ cpc[c].pc = "run"
    /\ cpc[c].will # Raises
    /\ cpc' = [cpc EXCEPT ![c].pc = "store"]
    /\ cl_last' = Step(c, "return", cpc[c].key, "returned", cpc[c].will)
    /\ UNCHANGED <<now, cacheVars, cached_ttl>>

\* cache.set(key, result, ttl); return result.
CachedStore(c) ==
    /\ cpc[c].pc = "store"
    /\ StoreSet(cpc[c].key, cpc[c].will, cached_ttl)
    /\ cpc' = [cpc EXCEPT ![c] = Idle]
    /\ cl_last' = Step(c, "store", cpc[c].key, "stored", cpc[c].will)
    /\ UNCHANGED cached_ttl

CachedTick ==
    /\ Tick
    /\ cl_last' = Step(NoCaller, "tick", NoKey, "-", None)
    /\ UNCHANGED <<cached_ttl, cpc>>

\* A function under @cached(ttl=1), no call made yet.
CachedInit ==
    /\ cached_ttl = 1
    /\ cpc = [c \in Callers |-> Idle]
    /\ cl_last = Step(NoCaller, "init", NoKey, "-", None)

\* ------------------------------------------------------------ rate_limited
\* rate_limited(limiter_name, tokens = 1, wait): the decorator's tokens.
gate_tokens == 1

GateStep(w, step, wait, outcome) ==
    [caller |-> w, step |-> step, wait |-> wait, outcome |-> outcome]

GateFrame(pc, wait, since, need) ==
    [pc |-> pc, wait |-> wait, since |-> since, need |-> need]

GateIdle == GateFrame("idle", FALSE, 0, 0)

\* The wrapper's branch after acquire, were a refusal let through.
AfterAcquireLetThrough(ok, wait) ==
    IF ok THEN "invoke" ELSE IF wait THEN "wait" ELSE "invoke"

\* if not limiter.acquire(tokens): if wait: ... else: raise Exception(...)
AfterAcquire(ok, wait) ==
    IF ok THEN "invoke" ELSE IF wait THEN "wait" ELSE "raise"

\* A wrapped call where the named limiter does not exist: func is run.
GateCallNoLimiter(w, wait) ==
    /\ wpc[w].pc = "idle"
    /\ calls < MaxCalls
    /\ ~ limiter_found
    /\ calls' = calls + 1
    /\ wpc' = [wpc EXCEPT ![w] = GateFrame("invoke", wait, 0, 0)]
    /\ wl_last' = GateStep(w, "call", wait, "no limiter")
    /\ UNCHANGED <<now, limiterVars, limiter_found, invoked, refused>>

\* A wrapped call: limiter.acquire(tokens) and the branch on its result.
GateCall(w, wait) ==
    /\ wpc[w].pc = "idle"
    /\ calls < MaxCalls
    /\ limiter_found
    /\ calls' = calls + 1
    /\ AcquireBody(gate_tokens)
    /\ LET nx == AfterAcquire(rl_last'.ok, wait)
       IN IF nx = "raise"
          THEN /\ wpc' = [wpc EXCEPT ![w] = GateIdle]
               /\ refused' = refused + 1
               /\ wl_last' = GateStep(w, "call", wait, "raised")
          ELSE /\ wpc' = [wpc EXCEPT ![w] = GateFrame(nx, wait, 0, 0)]
               /\ refused' = refused
               /\ wl_last' = GateStep(w, "call", wait,
                                      IF nx = "invoke" THEN "granted"
                                                       ELSE "must wait")
    /\ UNCHANGED <<now, rl_log, limiter_found, invoked>>

\* wait_time = limiter.wait_time(tokens); time.sleep(wait_time) begins.
GateWaitTime(w) ==
    /\ wpc[w].pc = "wait"
    /\ rl_last' = Call("wait_time", gate_tokens, FALSE, tokens,
                       WaitNeeded(gate_tokens))
    /\ wpc' = [wpc EXCEPT ![w] = GateFrame("sleep", TRUE, now,
                                           WaitNeeded(gate_tokens))]
    /\ wl_last' = GateStep(w, "wait_time", TRUE, "sleeping")
    /\ UNCHANGED <<now, requests_per_window, window_seconds, tokens,
                   last_refill, rl_log, limiter_found, calls, invoked,
                   refused>>

\* time.sleep(wait_time) is over; limiter.acquire(tokens), its result dropped.
GateWake(w) ==
    /\ wpc[w].pc = "sleep"
    /\ (now - wpc[w].since) * requests_per_window >= wpc[w].need
    /\ AcquireBody(gate_tokens)
    /\ wpc' = [wpc EXCEPT ![w] = GateFrame("invoke", TRUE, 0, 0)]
    /\ wl_last' = GateStep(w, "wake", TRUE,
                           IF rl_last'.ok THEN "granted" ELSE "not granted")
    /\ UNCHANGED <<now, rl_log, limiter_found, calls, invoked, refused>>

\* return func(*args, **kwargs)
GateInvoke(w) ==
    /\ wpc[w].pc = "invoke"
    /\ invoked' = invoked + 1
    /\ wpc' = [wpc EXCEPT ![w] = GateIdle]
    /\ wl_last' = GateStep(w, "invoke", wpc[w].wait, "ran")
    /\ UNCHANGED <<now, limiterVars, limiter_found, calls, refused>>

GateTick ==
    /\ ClockTick
    /\ wl_last' = GateStep(NoCaller, "tick", FALSE, "-")
    /\ UNCHANGED <<limiter_found, wpc, calls, invoked, refused>>

GateInit ==
    /\ limiter_found \in BOOLEAN
    /\ wpc = [w \in GateCallers |-> GateIdle]
    /\ calls = 0
    /\ invoked = 0
    /\ refused = 0
    /\ wl_last = GateStep(NoCaller, "init", FALSE, "-")

\* ----------------------------------------------------------- TaskScheduler
Worker(pc, i, left) == [pc |-> pc, i |-> i, left |-> left]

Unborn == Worker("unborn", 0, 0)

\* How a run of function j ends.
Outcome(j) == IF j \in Raising THEN "raise" ELSE "ok"

Alive(w) == workers[w].pc \notin {"unborn", "dead"}

\* with self._lock, were the lock not there.
SchedEnterAnyway(c) == TRUE

\* with self._lock: the caller waits until no other caller holds the lock.
SchedCanEnter(c) == sched_lock = NoCaller \/ sched_lock = c

SchedGoto(c, pc) == spc' = [spc EXCEPT ![c] = pc]

\* A mutation of AddJob: the function is put at the head of self.jobs.
AddJobAtHead(c, j, interval, imm) ==
    /\ spc[c] = "idle"
    /\ SchedCanEnter(c)
    /\ imm => Len(jobs) < MaxJobs
    /\ registered' = IF interval > 0 THEN registered \cup {j} ELSE registered
    /\ jobs' = IF imm THEN <<j>> \o jobs ELSE jobs
    /\ UNCHANGED <<running, thread, workers, due, polled, sched_lock, spc,
                   join_left, stops>>

\* add_job(func, interval_hours, run_immediately), under the lock.
AddJob(c, j, interval, imm) ==
    /\ spc[c] = "idle"
    /\ SchedCanEnter(c)
    /\ imm => Len(jobs) < MaxJobs
    /\ registered' = IF interval > 0 THEN registered \cup {j} ELSE registered
    /\ jobs' = IF imm THEN Append(jobs, j) ELSE jobs
    /\ UNCHANGED <<running, thread, workers, due, polled, sched_lock, spc,
                   join_left, stops>>

\* start(): with self._lock
StartEnter(c) ==
    /\ spc[c] = "idle"
    /\ SchedCanEnter(c)
    /\ sched_lock' = c
    /\ SchedGoto(c, "start_check")
    /\ UNCHANGED <<running, thread, workers, jobs, registered, due, polled,
                   join_left, stops>>

\* start(): if self.running: return
StartCheck(c) ==
    /\ spc[c] = "start_check"
    /\ IF running
       THEN /\ sched_lock' = NoCaller
            /\ SchedGoto(c, "idle")
       ELSE /\ sched_lock' = sched_lock
            /\ SchedGoto(c, "start_spawn")
    /\ UNCHANGED <<running, thread, workers, jobs, registered, due, polled,
                   join_left, stops>>

\* The worker a start() creates: the first that does not exist yet.
NextWorker == CHOOSE w \in Workers :
                 /\ workers[w].pc = "unborn"
                 /\ \A v \in Workers : workers[v].pc = "unborn" => w <= v

\* start(): self.running = True; self._thread = Thread(...); start it.
StartSpawn(c) ==
    /\ spc[c] = "start_spawn"
    /\ \E w \in Workers : workers[w].pc = "unborn"
    /\ running' = TRUE
    /\ thread' = NextWorker
    /\ workers' = [workers EXCEPT ![NextWorker] = Worker("pass", 1, 0)]
    /\ sched_lock' = NoCaller
    /\ SchedGoto(c, "idle")
    /\ UNCHANGED <<jobs, registered, due, polled, join_left, stops>>

\* stop(): self.running = False; if self._thread: the join begins.
Stop(c) ==
    /\ spc[c] = "idle"
    /\ SchedCanEnter(c)
    /\ stops < MaxStops
    /\ stops' = stops + 1
    /\ running' = FALSE
    /\ IF thread # NoWorker
       THEN /\ sched_lock' = c
            /\ SchedGoto(c, "join")
            /\ join_left' = JoinTimeout
       ELSE /\ UNCHANGED <<sched_lock, spc, join_left>>
    /\ UNCHANGED <<thread, workers, jobs, registered, due, polled>>

\* join, were it called without a timeout.
JoinNoTimeout == workers[thread].pc = "dead"

\* self._thread.join(timeout=5) returns: the worker ended, or the time is up.
JoinDone == workers[thread].pc = "dead" \/ join_left = 0

\* stop() returns.
StopReturn(c) ==
    /\ spc[c] = "join"
    /\ JoinDone
    /\ sched_lock' = NoCaller
    /\ SchedGoto(c, "idle")
    /\ join_left' = 0
    /\ UNCHANGED <<running, thread, workers, jobs, registered, due, polled, stops>>

\* The first loop, were it to leave out the last function of the list.
MoreJobsButLast(w) == workers[w].i < Len(jobs)

\* for job in self.jobs: the list holds a function the loop has not reached.
MoreJobs(w) == workers[w].i <= Len(jobs)

\* _run_scheduler, the first loop: the next function of self.jobs is called,
\* or the list is through and the worker goes on to the polling loop.
PassNext(w) ==
    /\ workers[w].pc = "pass"
    /\ IF MoreJobs(w)
       THEN workers' = [workers EXCEPT ![w].pc = "job"]
       ELSE workers' = [workers EXCEPT ![w].pc = "check"]
    /\ UNCHANGED <<running, thread, jobs, registered, due, polled, sched_lock,
                   spc, join_left, stops>>

\* Where the worker goes after a function of the first loop, were the
\* exception not caught.
AfterJobUncaught(o) == IF o = "raise" THEN "dead" ELSE "pass"

\* try: job() except Exception: logger.error(...): on to the next function.
AfterJob(o) == "pass"

\* The function called in the first loop returns or raises.
JobEnd(w) ==
    /\ workers[w].pc = "job"
    /\ workers' = [workers EXCEPT ![w] =
                      Worker(AfterJob(Outcome(jobs[workers[w].i])),
                             workers[w].i + 1, 0)]
    /\ UNCHANGED <<running, thread, jobs, registered, due, polled, sched_lock,
                   spc, join_left, stops>>

\* The orders in which schedule sorts the due functions (by next_run).
Orders(S) ==
    {s \in [1..Cardinality(S) -> S] :
        \A a, b \in 1..Cardinality(S) : a # b => s[a] # s[b]}

\* schedule.run_pending(): the due functions are run in order; a function
\* that returns is rescheduled; one that raises ends the call, the exception
\* leaving run_pending.
Invoked(order, bad) ==
    {order[a] : a \in {b \in DOMAIN order :
                          \A k \in 1..(b - 1) : order[k] \notin bad}}

\* while self.running: schedule.run_pending(); time.sleep(60), the sleep
\* begun; an exception of run_pending is logged and the sleep is the same.
Poll(w, order) ==
    /\ workers[w].pc = "check"
    /\ running
    /\ polled' = [due |-> due, ran |-> Invoked(order, Raising),
                  raised |-> Invoked(order, Raising) \cap Raising]
    /\ due' = due \ (Invoked(order, Raising) \ Raising)
    /\ workers' = [workers EXCEPT ![w].pc = "sleep", ![w].left = PollSleep]
    /\ UNCHANGED <<running, thread, jobs, registered, sched_lock, spc,
                   join_left, stops>>

\* while self.running: false, _run_scheduler returns and the thread ends.
Exit(w) ==
    /\ workers[w].pc = "check"
    /\ ~ running
    /\ workers' = [workers EXCEPT ![w] = Worker("dead", 0, 0)]
    /\ UNCHANGED <<running, thread, jobs, registered, due, polled, sched_lock,
                   spc, join_left, stops>>

\* time.sleep(60) is over.
Wake(w) ==
    /\ workers[w].pc = "sleep"
    /\ workers[w].left = 0
    /\ workers' = [workers EXCEPT ![w].pc = "check"]
    /\ UNCHANGED <<running, thread, jobs, registered, due, polled, sched_lock,
                   spc, join_left, stops>>

\* The interval of a registered function has elapsed.
FallDue(j) ==
    /\ j \in registered
    /\ j \notin due
    /\ due' = due \cup {j}
    /\ UNCHANGED <<running, thread, workers, jobs, registered, polled,
                   sched_lock, spc, join_left, stops>>

Joining == \E c \in SchedCallers : spc[c] = "join"

\* The timers that run: the join's timeout and the workers' sleeps.
Timers ==
    (IF Joining /\ join_left > 0 THEN {join_left} ELSE {})
    \cup {workers[w].left : w \in {v \in Workers : workers[v].pc = "sleep"
                                                  /\ workers[v].left > 0}}

\* The time until the first of the running timers is up.
NextTimeout == CHOOSE d \in Timers : \A e \in Timers : d <= e

\* Time passes until the first running timer is up: the join's timeout and
\* the sleeps run down.  A join whose time is up returns before more time
\* passes; a sleep whose time is up may last longer.  Time passes while
\* workers sleep or run a function, not while one stands between the two.
SchedTick ==
    /\ Timers # {}
    /\ Joining => join_left > 0
    /\ \A w \in Workers : workers[w].pc \notin {"pass", "check"}
    /\ join_left' = IF Joining THEN join_left - NextTimeout ELSE join_left
    /\ workers' = [w \in Workers |->
                      IF workers[w].pc = "sleep" /\ workers[w].left > 0
                      THEN [workers[w] EXCEPT !.left = @ - NextTimeout]
                      ELSE workers[w]]
    /\ UNCHANGED <<running, thread, jobs, registered, due, polled, sched_lock,
                   spc, stops>>

\* TaskScheduler.__init__, and schedule with nothing registered.
SchedInit ==
    /\ running = FALSE
    /\ thread = NoWorker
    /\ workers = [w \in Workers |-> Unborn]
    /\ jobs = <<>>
    /\ registered = {}
    /\ due = {}
    /\ polled = [due |-> {}, ran |-> {}, raised |-> {}]
    /\ sched_lock = NoCaller
    /\ spc = [c \in SchedCallers |-> "idle"]
    /\ join_left = 0
    /\ stops = 0

\* ------------------------------------------- TaskScheduler instances
\* Several TaskScheduler instances in one process, each call of add_job,
\* start and stop taken as a whole (each runs under the instance's lock).
\* running, jobs and the threads belong to the instance;
\* schedule.every(...).do(func) and schedule.run_pending() work on the
\* registry of the schedule module, of which the process has one:
\* registered and due are that registry, whatever instance is used.
\* The threads of an instance are held in slots; the slot of a thread that
\* has ended is free for the thread of a later start().
TsThread(pc, i) == [pc |-> pc, i |-> i]

NoTsThread == TsThread("none", 0)

TsFree(s) == {t \in Slots : ts[s].threads[t].pc = "none"}

\* The slot the thread of the next start() takes.
TsNextSlot(s) == IF "t1" \in TsFree(s) THEN "t1" ELSE "t2"

TsRest ==
    UNCHANGED <<running, thread, workers, jobs, sched_lock, spc, join_left,
                stops>>

\* add_job(func, interval_hours, run_immediately) on instance s.
TsAddJob(s, j, interval, imm) ==
    /\ imm => Len(ts[s].jobs) < MaxJobs
    /\ registered' = IF interval > 0 THEN registered \cup {j} ELSE registered
    /\ ts' = [ts EXCEPT ![s].jobs = IF imm THEN Append(@, j) ELSE @]
    /\ added' = IF interval > 0 THEN added \cup {<<j, s>>} ELSE added
    /\ UNCHANGED <<due, polled, pollBy>>
    /\ TsRest

\* start() on instance s, which is not running: self.running = True and a
\* new thread, which begins with the first loop.
TsStart(s) ==
    /\ ~ ts[s].running
    /\ TsFree(s) # {}
    /\ ts' = [ts EXCEPT ![s].running = TRUE,
                        ![s].threads[TsNextSlot(s)] = TsThread("pass", 1)]
    /\ UNCHANGED <<registered, due, polled, added, pollBy>>
    /\ TsRest

\* stop(), were it to empty the registry: schedule.clear().
TsStopClearsRegistry(s) ==
    /\ ts' = [ts EXCEPT ![s].running = FALSE]
    /\ registered' = {}
    /\ due' = {}
    /\ UNCHANGED <<polled, added, pollBy>>
    /\ TsRest

\* stop() on instance s: self.running = False; the join waits for the
\* thread started last, five seconds at most, and changes nothing.
TsStop(s) ==
    /\ ts' = [ts EXCEPT ![s].running = FALSE]
    /\ UNCHANGED <<registered, due, polled, added, pollBy>>
    /\ TsRest

\* _run_scheduler, the first loop: the next function of self.jobs is called
\* and returns or raises, or the list is through.
TsPass(s, t) ==
    /\ ts[s].threads[t].pc = "pass"
    /\ ts' = IF ts[s].threads[t].i <= Len(ts[s].jobs)
             THEN [ts EXCEPT ![s].threads[t].i = @ + 1]
             ELSE [ts EXCEPT ![s].threads[t].pc = "check"]
    /\ UNCHANGED <<registered, due, polled, added, pollBy>>
    /\ TsRest

\* while self.running: schedule.run_pending(); time.sleep(60), the sleep
\* begun.
TsPoll(s, t, order) ==
    /\ ts[s].threads[t].pc = "check"
    /\ ts[s].running
    /\ polled' = [due |-> due, ran |-> Invoked(order, Raising),
                  raised |-> Invoked(order, Raising) \cap Raising]
    /\ due' = due \ (Invoked(order, Raising) \ Raising)
    /\ ts' = [ts EXCEPT ![s].threads[t].pc = "sleep"]
    /\ pollBy' = <<s, t>>
    /\ UNCHANGED <<registered, added>>
    /\ TsRest

\* while self.running: false, _run_scheduler returns and the thread ends.
TsExit(s, t) ==
    /\ ts[s].threads[t].pc = "check"
    /\ ~ ts[s].running
    /\ ts' = [ts EXCEPT ![s].threads[t] = NoTsThread]
    /\ UNCHANGED <<registered, due, polled, added, pollBy>>
    /\ TsRest

\* time.sleep(60) is over.
TsWake(s, t) ==
    /\ ts[s].threads[t].pc = "sleep"
    /\ ts' = [ts EXCEPT ![s].threads[t].pc = "check"]
    /\ UNCHANGED <<registered, due, polled, added, pollBy>>
    /\ TsRest

\* TaskScheduler.__init__ of every instance; no add_job, no poll yet.
InstInit ==
    /\ ts = [s \in TSInstances |->
                [running |-> FALSE, jobs |-> <<>>,
                 threads |-> [t \in Slots |-> NoTsThread]]]
    /\ added = {}
    /\ pollBy = <<"-", "-">>

\* ------------------------------------------------- get_scheduler
\* get_scheduler(), step by step.  get_memory_cache, get_file_cache and
\* get_rate_limiters have the same shape: a test of the module global, the
\* construction, the assignment, the return of the global; none takes a
\* lock.  An instance is named by the count of the instances constructed.
NoInstance == 0

Accessing(pc, inst) == [pc |-> pc, made |-> inst]

NotAccessing == Accessing("idle", NoInstance)

\* if _scheduler is None: the thread goes on to construct an instance;
\* otherwise: return _scheduler.
GetSchedulerTest(t) ==
    /\ gpc[t].pc = "idle"
    /\ IF scheduler = NoInstance
       THEN /\ gpc' = [gpc EXCEPT ![t] = Accessing("create", NoInstance)]
            /\ got' = got
       ELSE /\ got' = [got EXCEPT ![t] = scheduler]
            /\ gpc' = gpc
    /\ UNCHANGED <<scheduler, built>>

\* TaskScheduler(): a new instance.
GetSchedulerCreate(t) ==
    /\ gpc[t].pc = "create"
    /\ built' = built + 1
    /\ gpc' = [gpc EXCEPT ![t] = Accessing("assign", built + 1)]
    /\ UNCHANGED <<scheduler, got>>

\* _scheduler = (the new instance)
GetSchedulerAssign(t) ==
    /\ gpc[t].pc = "assign"
    /\ scheduler' = gpc[t].made
    /\ gpc' = [gpc EXCEPT ![t].pc = "return"]
    /\ UNCHANGED <<got, built>>

\* return _scheduler: the global as it is now.
GetSchedulerReturn(t) ==
    /\ gpc[t].pc = "return"
    /\ got' = [got EXCEPT ![t] = scheduler]
    /\ gpc' = [gpc EXCEPT ![t] = NotAccessing]
    /\ UNCHANGED <<scheduler, built>>

\* _scheduler = None, no call of get_scheduler made yet.
AccInit ==
    /\ scheduler = NoInstance
    /\ gpc = [t \in Threads |-> NotAccessing]
    /\ got = [t \in Threads |-> NoInstance]
    /\ built = 0

\* ------------------------------------------------------- maintenance job
\* An attribute the Config object does not have: reading it raises
\* AttributeError.
Absent == "absent"

\* The attributes optimization.py reads for the caches and the scheduler.
\* config.py declares neither (it has cache_ttl_seconds and
\* auto_refresh_enabled); with extra = "allow" the settings file can add
\* them, as strings, so schedule_enabled is truthy unless it is empty.
Configs ==
    { [cache_ttl |-> t, schedule_enabled |-> e] :
         t \in {Absent, "set"}, e \in {Absent, "truthy", "falsy"} }

GlobalCaches == {"memory", "file"}

\* get_memory_cache() / get_file_cache() returns an instance: the global is
\* set already, or config.cache_ttl can be read to make one.
CanGet(name) == made[name] \/ cfg.cache_ttl # Absent

\* What a run of cleanup_caches did: for either cache, whether
\* cleanup_expired was called on it, and the count reported.
Sweep(run, mc, fc, mn, fn) ==
    [run |-> run, memory_called |-> mc, file_called |-> fc,
     memory_expired |-> mn, file_expired |-> fn]

NotRegistered == [registered |-> FALSE, interval |-> 0]

\* import of optimization.py: `if get_config().schedule_enabled:` is read
\* outside any try; when it is truthy, initialize_optimization registers
\* cleanup_caches with the scheduler's add_job(interval_hours=6).
ImportModule ==
    /\ module = "unloaded"
    /\ IF cfg.schedule_enabled = Absent
       THEN /\ module' = "import_failed"
            /\ UNCHANGED maint
       ELSE IF cfg.schedule_enabled = "truthy"
       THEN /\ module' = "loaded"
            /\ maint' = [registered |-> TRUE,
                         interval |-> CleanupIntervalHours]
       ELSE /\ module' = "loaded"
            /\ UNCHANGED maint
    /\ UNCHANGED <<cfg, made, expired, swept>>

\* cleanup_caches(): for either cache, the accessor and cleanup_expired in
\* one try; an exception (mfail, ffail: cleanup_expired raises) is logged
\* and 0 is reported.
CleanupCaches(mfail, ffail) ==
    /\ module = "loaded"
    /\ made' = [made EXCEPT !["memory"] = CanGet("memory"),
                            !["file"] = CanGet("file")]
    /\ swept' = Sweep(TRUE, CanGet("memory"), CanGet("file"),
                      IF CanGet("memory") /\ ~ mfail
                      THEN expired["memory"] ELSE 0,
                      IF CanGet("file") /\ ~ ffail
                      THEN expired["file"] ELSE 0)
    /\ expired' = [expired EXCEPT
                      !["memory"] = IF CanGet("memory") /\ ~ mfail
                                    THEN 0 ELSE @,
                      !["file"] = IF CanGet("file") /\ ~ ffail
                                  THEN 0 ELSE @]
    /\ UNCHANGED <<cfg, module, maint>>

\* get_memory_cache() / get_file_cache() called by a wrapper: the instance
\* is made on the first call, if config.cache_ttl can be read.
GetGlobalCache(name) ==
    /\ module = "loaded"
    /\ CanGet(name)
    /\ ~ made[name]
    /\ made' = [made EXCEPT ![name] = TRUE]
    /\ UNCHANGED <<cfg, module, expired, swept, maint>>

\* The ttl of an entry of a global cache runs out.
Expire(name) ==
    /\ made[name]
    /\ expired[name] < MaxExpired
    /\ expired' = [expired EXCEPT ![name] = @ + 1]
    /\ UNCHANGED <<cfg, module, made, swept, maint>>

\* Before optimization.py is imported, with any settings.
MaintInit ==
    /\ cfg \in Configs
    /\ module = "unloaded"
    /\ made = [name \in GlobalCaches |-> FALSE]
    /\ expired = [name \in GlobalCaches |-> 0]
    /\ swept = Sweep(FALSE, FALSE, FALSE, 0, 0)
    /\ maint = NotRegistered

MaintAside ==
    /\ MaintInit
    /\ cfg = [cache_ttl |-> Absent, schedule_enabled |-> Absent]

\* --------------------------------------------------------- specifications
vars ==
    <<now, cacheVars, limiterVars, threadVars, cachedVars, gateVars, schedVars,
      dirVars, writeVars, maintVars, instVars, accVars>>

CacheInit ==
    /\ store \in Stores
    /\ max_size \in MaxSizes
    /\ cache = Empty
    /\ access_order = <<>>
    /\ files = Empty
    /\ recency = Empty
    /\ last = Did("init", NoKey, None, "-")

\* The components a specification does not exercise stay as constructed.
CacheAside ==
    /\ CacheInit
    /\ store = "memory"
    /\ max_size = 2

LimiterAside ==
    /\ LimiterInit
    /\ requests_per_window = 1

CachedAside ==
    /\ CachedInit

GateAside ==
    /\ GateInit
    /\ limiter_found = TRUE

CachesOnly ==
    UNCHANGED <<limiterVars, threadVars, cachedVars, gateVars, schedVars,
                dirVars, writeVars, maintVars, instVars, accVars>>

LimiterOnly ==
    UNCHANGED <<cacheVars, threadVars, cachedVars, gateVars, schedVars,
                dirVars, writeVars, maintVars, instVars, accVars>>

ThreadsOnly ==
    UNCHANGED <<cacheVars, cachedVars, gateVars, schedVars, dirVars,
                writeVars, maintVars, instVars, accVars>>

CachedOnly ==
    UNCHANGED <<limiterVars, threadVars, gateVars, schedVars, dirVars,
                writeVars, maintVars, instVars, accVars>>

GateOnly ==
    UNCHANGED <<cacheVars, threadVars, cachedVars, schedVars, dirVars,
                writeVars, maintVars, instVars, accVars>>

SchedOnly ==
    UNCHANGED <<now, cacheVars, limiterVars, threadVars, cachedVars, gateVars,
                dirVars, writeVars, maintVars, instVars, accVars>>

\* The operations of the caches in a behaviour that keeps no record of the
\* FileCache instances.
NoDir == UNCHANGED dirVars

DirOnly ==
    UNCHANGED <<limiterVars, threadVars, cachedVars, gateVars, schedVars,
                writeVars, maintVars, instVars, accVars>>

WriteOnly ==
    UNCHANGED <<limiterVars, threadVars, cachedVars, gateVars, schedVars,
                maintVars, instVars, accVars>>

MaintOnly ==
    UNCHANGED <<now, cacheVars, limiterVars, threadVars, cachedVars, gateVars,
                schedVars, dirVars, writeVars, instVars, accVars>>

\* The caches: every operation of MemoryCache or of FileCache, and the clock.
Init ==
    /\ now = 0
    /\ CacheInit
    /\ LimiterAside
    /\ ThreadInit
    /\ CachedAside
    /\ GateAside
    /\ SchedInit
    /\ DirInit
    /\ WriteInit
    /\ MaintAside
    /\ InstInit
    /\ AccInit

Next ==
    \/ \E k \in Keys : MemGet(k) /\ CachesOnly
    \/ \E k \in Keys, v \in Values, t \in TtlArgs : MemSet(k, v, t) /\ CachesOnly
    \/ \E k \in Keys : MemDelete(k) /\ CachesOnly
    \/ MemClear /\ CachesOnly
    \/ MemCleanupExpired /\ CachesOnly
    \/ \E k \in FileKeys : FileGet(k) /\ CachesOnly
    \/ \E k \in FileKeys, v \in Values, t \in TtlArgs :
          FileSet(k, v, t) /\ CachesOnly
    \/ \E k \in FileKeys : FileDelete(k) /\ CachesOnly
    \/ FileClear /\ CachesOnly
    \/ FileCleanupExpired /\ CachesOnly
    \/ Tick /\ CachesOnly

Spec == Init /\ [][Next]_vars

\* One RateLimiter: acquire, wait_time and reset with any request, and the
\* clock.
InitLimiter ==
    /\ now = 0
    /\ CacheAside
    /\ LimiterInit
    /\ ThreadInit
    /\ CachedAside
    /\ GateAside
    /\ SchedInit
    /\ DirInit
    /\ WriteInit
    /\ MaintAside
    /\ InstInit
    /\ AccInit

LimiterNext ==
    \/ \E n \in Requests : Acquire(n) /\ LimiterOnly
    \/ \E n \in Requests : WaitTime(n) /\ LimiterOnly
    \/ Reset /\ LimiterOnly
    \/ ClockTick /\ LimiterOnly

SpecLimiter == InitLimiter /\ [][LimiterNext]_vars

\* One RateLimiter, fresh: acquire(1) calls and the clock.
BurstNext ==
    \/ BurstAcquire /\ LimiterOnly
    \/ BurstTick /\ LimiterOnly

SpecBurst == InitLimiter /\ [][BurstNext]_vars

\* One RateLimiter, fresh: acquire calls for one token or more and the
\* clock, what each call asked for and got kept in rl_log.
GrantsNext ==
    \/ \E n \in Requests \ {0} : LoggedAcquire(n) /\ LimiterOnly
    \/ BurstTick /\ LimiterOnly

SpecGrants == InitLimiter /\ [][GrantsNext]_vars

\* One RateLimiter and the threads that call acquire(1) on it.
ThreadNext ==
    \/ \E t \in Threads : ThreadCall(t) /\ ThreadsOnly
    \/ \E t \in Threads : ThreadLock(t) /\ ThreadsOnly
    \/ \E t \in Threads : ThreadRefill(t) /\ ThreadsOnly
    \/ \E t \in Threads : ThreadTest(t) /\ ThreadsOnly
    \/ \E t \in Threads : ThreadDeduct(t) /\ ThreadsOnly
    \/ ThreadTick /\ ThreadsOnly

SpecThreads == InitLimiter /\ [][ThreadNext]_vars

\* Callers of one function wrapped by cached, over either cache.
InitCached ==
    /\ now = 0
    /\ CacheInit
    /\ store = "file" => max_size = 2
    /\ LimiterAside
    /\ ThreadInit
    /\ CachedInit
    /\ GateAside
    /\ SchedInit
    /\ DirInit
    /\ WriteInit
    /\ MaintAside
    /\ InstInit
    /\ AccInit

CachedNext ==
    \/ \E c \in Callers, k \in CachedKeys, w \in Results \cup {Raises} :
          CachedLookup(c, k, w) /\ CachedOnly
    \/ \E c \in Callers : CachedRaise(c) /\ CachedOnly
    \/ \E c \in Callers : CachedReturn(c) /\ CachedOnly
    \/ \E c \in Callers : CachedStore(c) /\ CachedOnly
    \/ CachedTick /\ CachedOnly

SpecCached == InitCached /\ [][CachedNext]_vars

\* Callers of functions wrapped by rate_limited on one limiter.
InitGate ==
    /\ now = 0
    /\ CacheAside
    /\ LimiterInit
    /\ ThreadInit
    /\ CachedAside
    /\ GateInit
    /\ SchedInit
    /\ DirInit
    /\ WriteInit
    /\ MaintAside
    /\ InstInit
    /\ AccInit

GateNext ==
    \/ \E w \in GateCallers, wait \in BOOLEAN :
          GateCallNoLimiter(w, wait) /\ GateOnly
    \/ \E w \in GateCallers, wait \in BOOLEAN : GateCall(w, wait) /\ GateOnly
    \/ \E w \in GateCallers : GateWaitTime(w) /\ GateOnly
    \/ \E w \in GateCallers : GateWake(w) /\ GateOnly
    \/ \E w \in GateCallers : GateInvoke(w) /\ GateOnly
    \/ GateTick /\ GateOnly

SpecGate == InitGate /\ [][GateNext]_vars

\* One cache directory: FileCache instances created on it one after the
\* other, every operation of the instance in use, files damaged from
\* outside, and the clock.
InitDir ==
    /\ now = 0
    /\ CacheInit
    /\ store = "file"
    /\ max_size = 2
    /\ LimiterAside
    /\ ThreadInit
    /\ CachedAside
    /\ GateAside
    /\ SchedInit
    /\ DirInit
    /\ WriteInit
    /\ MaintAside
    /\ InstInit
    /\ AccInit

DirNext ==
    \/ \E k \in FileKeys : FileGet(k) /\ NoDir /\ DirOnly
    \/ \E k \in FileKeys, v \in Values, t \in TtlArgs :
          FileSet(k, v, t) /\ Wrote(k, v, t) /\ DirOnly
    \/ \E k \in FileKeys : FileDelete(k) /\ Forgot({k}) /\ DirOnly
    \/ FileClear /\ Forgot(FileKeys) /\ DirOnly
    \/ FileCleanupExpired /\ NoDir /\ DirOnly
    \/ Tick /\ NoDir /\ DirOnly
    \/ NewFileCache /\ DirOnly
    \/ \E k \in FileKeys : Damage(k) /\ DirOnly

SpecDir == InitDir /\ [][DirNext]_vars

\* Both caches, the files of the directory being damaged from outside as
\* well.
InitSweep == Init /\ (store = "file" => max_size = 2)

SweepNext ==
    \/ \E k \in Keys : MemGet(k) /\ CachesOnly
    \/ \E k \in Keys, v \in Values, t \in TtlArgs : MemSet(k, v, t) /\ CachesOnly
    \/ \E k \in Keys : MemDelete(k) /\ CachesOnly
    \/ MemClear /\ CachesOnly
    \/ MemCleanupExpired /\ CachesOnly
    \/ DirNext

SpecSweep == InitSweep /\ [][SweepNext]_vars

\* One FileCache whose set is taken in steps and may fail: open, then
\* pickle.dump; the other operations wait for the lock set holds.
WriteNext ==
    \/ \E k \in FileKeys, v \in Values, t \in TtlArgs :
          FileSetOpen(k, v, t) /\ WriteOnly
    \/ \E k \in FileKeys, v \in Values, t \in TtlArgs :
          FileSetOpenFails(k, v, t) /\ WriteOnly
    \/ FileSetDump /\ WriteOnly
    \/ FileSetDumpFails /\ WriteOnly
    \/ WriteTick /\ WriteOnly
    \/ \E k \in FileKeys : FileGet(k) /\ fw.pc = "idle" /\ NoDir /\ DirOnly
    \/ \E k \in FileKeys :
          FileDelete(k) /\ fw.pc = "idle" /\ Forgot({k}) /\ DirOnly
    \/ FileCleanupExpired /\ fw.pc = "idle" /\ NoDir /\ DirOnly
    \/ Tick /\ fw.pc = "idle" /\ NoDir /\ DirOnly

SpecWrite == InitDir /\ [][WriteNext]_vars

\* The module's import and the maintenance job: runs of cleanup_caches, the
\* global caches made on first use, their entries expiring.
InitMaint ==
    /\ now = 0
    /\ CacheAside
    /\ LimiterAside
    /\ ThreadInit
    /\ CachedAside
    /\ GateAside
    /\ SchedInit
    /\ DirInit
    /\ WriteInit
    /\ MaintInit
    /\ InstInit
    /\ AccInit

MaintNext ==
    \/ ImportModule /\ MaintOnly
    \/ \E mfail \in BOOLEAN, ffail \in BOOLEAN :
          CleanupCaches(mfail, ffail) /\ MaintOnly
    \/ \E name \in GlobalCaches : GetGlobalCache(name) /\ MaintOnly
    \/ \E name \in GlobalCaches : Expire(name) /\ MaintOnly

SpecMaint == InitMaint /\ [][MaintNext]_vars

\* One TaskScheduler: callers of start, stop and add_job (one function,
\* run_immediately), its worker threads, and time.
InitSched ==
    /\ now = 0
    /\ CacheAside
    /\ LimiterAside
    /\ ThreadInit
    /\ CachedAside
    /\ GateAside
    /\ SchedInit
    /\ DirInit
    /\ WriteInit
    /\ MaintAside
    /\ InstInit
    /\ AccInit

SchedNext ==
    \/ \E c \in SchedCallers : AddJob(c, "j1", 0, TRUE) /\ SchedOnly
    \/ \E c \in SchedCallers : StartEnter(c) /\ SchedOnly
    \/ \E c \in SchedCallers : StartCheck(c) /\ SchedOnly
    \/ \E c \in SchedCallers : StartSpawn(c) /\ SchedOnly
    \/ \E c \in SchedCallers : Stop(c) /\ SchedOnly
    \/ \E c \in SchedCallers : StopReturn(c) /\ SchedOnly
    \/ \E w \in Workers : PassNext(w) /\ SchedOnly
    \/ \E w \in Workers : JobEnd(w) /\ SchedOnly
    \/ \E w \in Workers : Poll(w, <<>>) /\ SchedOnly
    \/ \E w \in Workers : Exit(w) /\ SchedOnly
    \/ \E w \in Workers : Wake(w) /\ SchedOnly
    \/ SchedTick /\ SchedOnly

SpecScheduler == InitSched /\ [][SchedNext]_vars

\* One TaskScheduler that is started and not stopped: add_job with any
\* function, interval and run_immediately, the worker's first loop and its
\* polling loop, the registered functions falling due, and time.
WorkerNext ==
    \/ \E c \in SchedCallers, j \in Jobs, n \in Intervals, imm \in BOOLEAN :
          AddJob(c, j, n, imm) /\ SchedOnly
    \/ \E c \in SchedCallers : StartEnter(c) /\ SchedOnly
    \/ \E c \in SchedCallers : StartCheck(c) /\ SchedOnly
    \/ \E c \in SchedCallers : StartSpawn(c) /\ SchedOnly
    \/ \E w \in Workers : PassNext(w) /\ SchedOnly
    \/ \E w \in Workers : JobEnd(w) /\ SchedOnly
    \/ \E w \in Workers, order \in Orders(due) : Poll(w, order) /\ SchedOnly
    \/ \E w \in Workers : Wake(w) /\ SchedOnly
    \/ \E j \in Jobs : FallDue(j) /\ SchedOnly
    \/ SchedTick /\ SchedOnly

SpecWorker == InitSched /\ [][WorkerNext]_vars

\* The same, every worker thread being scheduled and every function it calls
\* in the first loop coming to an end.
SpecWorkerFair ==
    /\ SpecWorker
    /\ \A w \in Workers : WF_vars((PassNext(w) \/ JobEnd(w)) /\ SchedOnly)

\* SpecScheduler, time passing, a join that can return returning and every
\* worker thread being scheduled.  A function a worker runs need not end.
SpecSchedulerStop ==
    /\ SpecScheduler
    /\ WF_vars(SchedTick /\ SchedOnly)
    /\ \A c \in SchedCallers : WF_vars(StopReturn(c) /\ SchedOnly)
    /\ \A w \in Workers :
          WF_vars((PassNext(w) \/ Poll(w, <<>>) \/ Exit(w)) /\ SchedOnly)

\* SpecScheduler, time passing, every call of start() and stop() that is
\* under way going on, every worker thread being scheduled, every function
\* it calls coming to an end and every sleep ending when its time is up.
SpecSchedulerRestart ==
    /\ SpecScheduler
    /\ WF_vars(SchedTick /\ SchedOnly)
    /\ \A c \in SchedCallers :
          WF_vars((StartCheck(c) \/ StartSpawn(c) \/ StopReturn(c))
                  /\ SchedOnly)
    /\ \A w \in Workers :
          WF_vars((PassNext(w) \/ JobEnd(w) \/ Poll(w, <<>>) \/ Exit(w)
                   \/ Wake(w)) /\ SchedOnly)

\* Two TaskScheduler instances of one process, their calls taken as wholes.
\* A is given a function that returns, periodic or run_immediately or both,
\* and is started and stopped any number of times; B is given periodic
\* functions, one that returns and one that raises, and is started.  The
\* threads of both poll, and the registered functions fall due.
InstOnly ==
    UNCHANGED <<now, cacheVars, limiterVars, threadVars, cachedVars, gateVars,
                dirVars, writeVars, maintVars, accVars>>

InstNext ==
    \/ \E n \in Intervals, imm \in BOOLEAN :
          TsAddJob("A", "j1", n, imm) /\ InstOnly
    \/ \E j \in Jobs : TsAddJob("B", j, 1, FALSE) /\ InstOnly
    \/ \E s \in TSInstances : TsStart(s) /\ InstOnly
    \/ TsStop("A") /\ InstOnly
    \/ \E s \in TSInstances, t \in Slots : TsPass(s, t) /\ InstOnly
    \/ \E s \in TSInstances, t \in Slots, order \in Orders(due) :
          TsPoll(s, t, order) /\ InstOnly
    \/ \E s \in TSInstances, t \in Slots : TsExit(s, t) /\ InstOnly
    \/ \E s \in TSInstances, t \in Slots : TsWake(s, t) /\ InstOnly
    \/ \E j \in Jobs : FallDue(j) /\ UNCHANGED instVars /\ InstOnly

SpecInstances == InitSched /\ [][InstNext]_vars

\* Threads that call get_scheduler(), any number of times, in any
\* interleaving of their steps.
AccOnly ==
    UNCHANGED <<now, cacheVars, limiterVars, threadVars, cachedVars, gateVars,
                schedVars, dirVars, writeVars, maintVars, instVars>>

AccNext ==
    \/ \E t \in Threads : GetSchedulerTest(t) /\ AccOnly
    \/ \E t \in Threads : GetSchedulerCreate(t) /\ AccOnly
    \/ \E t \in Threads : GetSchedulerAssign(t) /\ AccOnly
    \/ \E t \in Threads : GetSchedulerReturn(t) /\ AccOnly

SpecAccessor == InitSched /\ [][AccNext]_vars

\* ================================================================ claims
\* The entries the exercised store holds: the mapping, or the directory.
Held == IF store = "memory" THEN cache ELSE files

\* C1: a MemoryCache never holds more than max_size entries: not after a set
\* has returned, and not after any get, delete, clear or cleanup_expired that
\* follows it.
C1_SizeAtMostMaxSize ==
    store = "memory" => Cardinality(DOMAIN cache) <= max_size

\* A set that had to evict has returned and the cache holds max_size entries.
C1_Witness ==
    /\ store = "memory"
    /\ last.op = "set"
    /\ last.evicted # {}
    /\ max_size = 2
    /\ Cardinality(DOMAIN cache) = max_size

\* C2: a set of an absent key into a MemoryCache that holds max_size entries
\* evicts exactly one entry, the one whose latest successful get or set is
\* the oldest, and leaves the other entries as they were.
C2_EvictsLeastRecentlyUsed ==
    [][\A k \in Keys :
          ( /\ store = "memory"
            /\ last'.op = "set"
            /\ last'.key = k
            /\ k \notin DOMAIN cache
            /\ Cardinality(DOMAIN cache) = max_size )
          => \E e \in DOMAIN cache :
                /\ \A j \in DOMAIN cache : recency[e] <= recency[j]
                /\ DOMAIN cache' = ((DOMAIN cache) \ {e}) \cup {k}
                /\ \A j \in (DOMAIN cache) \ {e} : cache'[j] = cache[j]
      ]_vars

\* The spec's scenario with max_size = 2: set(a); set(b); get(a); set(c) has
\* evicted b and kept a, which was set first but read after b was set.
C2_Witness ==
    /\ store = "memory"
    /\ max_size = 2
    /\ last.op = "set"
    /\ last.key = "c"
    /\ last.evicted = {"b"}
    /\ DOMAIN cache = {"a", "c"}
    /\ cache["a"].hits = 1
    /\ cache["a"].timestamp <= cache["c"].timestamp

\* C3: in both caches a get(k) that directly follows set(k, v, ttl) with
\* ttl > 0, the clock not having moved, returns v.
C3_GetAfterSetReturnsValue ==
    [][\A k \in Keys :
          ( /\ last.op = "set"
            /\ last.key = k
            /\ last.ttl > 0
            /\ last'.op = "get"
            /\ last'.key = k )
          => last'.ret = last.val
      ]_vars

\* A FileCache get has just returned the value that the set before it stored,
\* late on the clock.
C3_Witness ==
    /\ store = "file"
    /\ last.op = "get"
    /\ last.branch = "hit"
    /\ last.ret = "v2"
    /\ now = MaxTime
    /\ Held[last.key].timestamp = now
    /\ Held[last.key].ttl = 1

\* C4: in both caches a get(k) of an entry whose ttl has elapsed
\* (now - timestamp > ttl) returns the miss and removes the entry, and only
\* it, so that the cache holds one entry less.
C4_ExpiredNeverServed ==
    [][\A k \in Keys :
          ( /\ last'.op = "get"
            /\ last'.key = k
            /\ k \in DOMAIN Held
            /\ Held[k].valid
            /\ now - Held[k].timestamp > Held[k].ttl )
          => /\ last'.ret = None
             /\ DOMAIN Held' = (DOMAIN Held) \ {k}
             /\ Cardinality(DOMAIN Held') = Cardinality(DOMAIN Held) - 1
      ]_vars

\* A MemoryCache get has just found its key expired and removed it.
C4_Witness ==
    /\ store = "memory"
    /\ last.op = "get"
    /\ last.branch = "expired"
    /\ last.key \notin DOMAIN Held

\* C5: on a fresh RateLimiter(C, W) the first C acquire(1) calls, made before
\* the clock moves, return true and the (C+1)-th returns false; when the next
\* call comes W seconds or more after them, it and the calls after it, C in
\* all, return true.
C5_BurstThenRefill ==
    LET C == requests_per_window
        W == window_seconds
        n == Len(rl_log)
    IN /\ \A i \in 1..n :
             (i <= C + 1 /\ \A j \in 1..i : rl_log[j].t = 0)
             => (rl_log[i].ok <=> i <= C)
       /\ \A i \in 1..n :
             ( /\ C + 1 < i
               /\ i <= 2 * C + 1
               /\ \A j \in 1..(C + 1) : rl_log[j].t = 0
               /\ rl_log[C + 2].t >= W )
             => rl_log[i].ok

\* RateLimiter(2, 3): three calls at clock 0, then two more from clock 3 on.
C5_Witness ==
    /\ requests_per_window = 2
    /\ Len(rl_log) = 5
    /\ \A j \in 1..3 : rl_log[j].t = 0
    /\ rl_log[4].t >= window_seconds
    /\ ~ rl_log[3].ok
    /\ rl_log[5].ok

\* C6: the balance of a RateLimiter stays within 0 and the capacity, whatever
\* acquire, wait_time and reset calls are made, for whatever token counts and
\* after whatever time.
C6_TokensWithinCapacity ==
    /\ 0 <= tokens
    /\ tokens <= requests_per_window * window_seconds

\* An acquire has found the bucket refilled to the capacity, the elapsed time
\* being worth more than what was missing, and has taken its tokens.
C6_Witness ==
    /\ rl_last.op = "acquire"
    /\ rl_last.ok
    /\ rl_last.n > 0
    /\ rl_last.t = MaxClock
    /\ rl_last.refilled = requests_per_window * window_seconds
    /\ tokens < requests_per_window * window_seconds

\* C7: while the clock stands still, of the acquire(1) calls that threads
\* make concurrently on a RateLimiter of capacity C, the first C to return
\* get true and the others false: min(N, C) of N calls, in every interleaving.
C7_NoTokenSpentTwice ==
    now = 0 =>
        Cardinality({t \in Threads : tres[t] = "True"})
            = Min(Cardinality({t \in Threads : tpc[t] = "done"}),
                  requests_per_window)

\* Three threads have called acquire(1) on a limiter of capacity 2 at clock 0:
\* two got true, one got false.
C7_Witness ==
    /\ now = 0
    /\ requests_per_window = 2
    /\ \A t \in Threads : tpc[t] = "done"
    /\ Cardinality({t \in Threads : tres[t] = "True"}) = 2
    /\ Cardinality({t \in Threads : tres[t] = "False"}) = 1

\* ---------------------------------------------------------------------- C8
\* The store holds an unexpired entry for k.
Live(k) ==
    /\ k \in DOMAIN Held
    /\ Held[k].valid
    /\ now - Held[k].timestamp <= Held[k].ttl

\* C8: a call to a function wrapped by cached runs the function if and only
\* if, when the wrapper looks the key up, the chosen store holds no unexpired
\* entry for it.  The code runs the function as well when the unexpired entry
\* holds None.
C8_InvokedIffNoLiveEntry ==
    [][\A c \in Callers, k \in CachedKeys :
          (/\ cpc[c].pc = "idle"
           /\ cl_last'.step = "lookup"
           /\ cl_last'.caller = c
           /\ cl_last'.key = k)
          => ((cpc'[c].pc = "run") <=> ~ Live(k))]_vars

\* ---------------------------------------------------------------------- C9
\* What the store holds, the bookkeeping (hits, access order) left out.
Payload(h) ==
    [k \in DOMAIN h |-> <<h[k].value, h[k].timestamp, h[k].ttl>>]

\* A lookup of k now would send the call on to the function.
Misses(k) ==
    \/ k \notin DOMAIN Held
    \/ ~ Held[k].valid
    \/ is_expired(Held[k], now)
    \/ Held[k].value = None

\* The step is the lookup of a call of c in which the function will raise.
LookupOfRaising(c) ==
    /\ cpc[c].pc = "idle"
    /\ cl_last'.step = "lookup"
    /\ cl_last'.caller = c
    /\ cpc'[c].pc = "run"
    /\ cpc'[c].will = Raises

\* The step is the function raising in a call of c.
RaiseOf(c) ==
    /\ cpc[c].pc = "run"
    /\ cl_last'.step = "raise"
    /\ cl_last'.caller = c

\* C9 as stated: when the wrapped function raises, the exception reaches the
\* caller, the entries of the cache are as they were before the call, and a
\* lookup of the key still misses.  The code's lookup removes the key's
\* expired entry before the function is run.
C9_RaisingCallLeavesCacheUnchanged ==
    [][\A c \in Callers :
          /\ (LookupOfRaising(c) \/ RaiseOf(c))
                => Payload(Held') = Payload(Held)
          /\ LookupOfRaising(c) =>
                \A k \in CachedKeys : cl_last'.key = k => Misses(k)'
          /\ RaiseOf(c) => (cpc'[c] = Idle /\ cl_last'.outcome = "raised")]_vars

\* C9, amended: when the wrapped function raises, the exception reaches the
\* caller and nothing is stored.  The call adds no entry and changes no
\* entry's value, timestamp or ttl; the only entry it may remove is the key's
\* own, when expired, at the lookup; the raise itself leaves the cache as it
\* is; and a lookup of the key still misses.
C9_RaisingCallStoresNothing ==
    [][\A c \in Callers :
          /\ LookupOfRaising(c) =>
                /\ \A j \in DOMAIN Held' :
                      /\ j \in DOMAIN Held
                      /\ Payload(Held')[j] = Payload(Held)[j]
                /\ \A j \in (DOMAIN Held) \ (DOMAIN Held') :
                      /\ j = cl_last'.key
                      /\ is_expired(Held[j], now)
                /\ \A k \in CachedKeys : cl_last'.key = k => Misses(k)'
          /\ RaiseOf(c) =>
                /\ cacheVars' = cacheVars
                /\ cpc'[c] = Idle
                /\ cl_last'.outcome = "raised"]_vars

\* A call whose lookup removed the key's expired entry and whose function
\* then raised: the key is gone and nothing was stored.
C9_Witness ==
    /\ cl_last.step = "raise"
    /\ cl_last.outcome = "raised"
    /\ last.op = "get"
    /\ last.branch = "expired"
    /\ last.key = cl_last.key
    /\ cl_last.key \notin DOMAIN Held
    /\ cpc[cl_last.caller] = Idle

\* --------------------------------------------------------------------- C10
\* Wrapped calls that ran or are about to run the function.
Running == invoked + Cardinality({w \in GateCallers : wpc[w].pc = "invoke"})

\* Wrapped calls that were refused, or wait for tokens.
HeldBack ==
    refused + Cardinality({w \in GateCallers : wpc[w].pc \in {"wait", "sleep"}})

\* C10: on an existing limiter, a wrapped call with wait false whose acquire
\* fails raises "Rate limit exceeded" and does not run the function; and
\* while no time has passed, of the wrapped calls made the first
\* requests_per_window run the function and every later one does not (it is
\* refused, or waits when its wait is true).
C10_RefusedWithoutRunning ==
    [][/\ \A w \in GateCallers :
             (/\ limiter_found
              /\ wpc[w].pc = "idle"
              /\ wl_last'.step = "call"
              /\ wl_last'.caller = w
              /\ ~ wl_last'.wait
              /\ rl_last'.op = "acquire"
              /\ ~ rl_last'.ok)
             => (/\ wl_last'.outcome = "raised"
                 /\ wpc'[w].pc = "idle"
                 /\ refused' = refused + 1
                 /\ invoked' = invoked
                 /\ Running' = Running)
       /\ (limiter_found /\ now' = 0)
             => (/\ Running' = Min(calls', requests_per_window)
                 /\ HeldBack' = calls' - Min(calls', requests_per_window))]_vars

\* RateLimiter(2, 3) at clock 0: two wrapped calls ran the function, the
\* third, with wait false, was refused.
C10_Witness ==
    /\ now = 0
    /\ limiter_found
    /\ requests_per_window = 2
    /\ calls = 3
    /\ invoked = 2
    /\ refused = 1
    /\ wl_last.step = "call"
    /\ wl_last.outcome = "raised"
    /\ ~ wl_last.wait

\* --------------------------------------------------------------------- C11
\* C11: on an existing limiter, a wrapped call goes on to run the function
\* only by an acquire of its own that returned true.  The code's second
\* acquire, after the sleep, sends the call on whatever it returned.
C11_InvokedOnlyWhenGranted ==
    [][\A w \in GateCallers :
          (/\ limiter_found
           /\ wpc[w].pc # "invoke"
           /\ wpc'[w].pc = "invoke")
          => (/\ wl_last'.caller = w
              /\ rl_last'.op = "acquire"
              /\ rl_last'.ok)]_vars

\* --------------------------------------------------------------------- C12
AliveWorkers == {w \in Workers : Alive(w)}

\* C12: at most one worker thread of a TaskScheduler is alive at any time.
\* In the code a stop() whose join times out leaves the worker alive, and the
\* start() that follows spawns a second one.
C12_AtMostOneWorkerAlive == Cardinality(AliveWorkers) <= 1

\* --------------------------------------------------------------------- C13
\* No caller is inside start() or stop().
Quiet == \A c \in SchedCallers : spc[c] = "idle"

\* C13: whenever no start() or stop() is under way, running is true if and
\* only if a worker thread is alive; so after stop() has returned, running is
\* false and no worker is alive.  In the code stop() returns when its join
\* times out, the worker still alive.
C13_RunningIffWorkerAlive == Quiet => (running <=> AliveWorkers # {})

\* --------------------------------------------------------------------- C14
\* C14: a start() that finds the scheduler running returns with nothing
\* changed, and a worker is spawned only by a start() that found the
\* scheduler not running, however the callers of start() interleave; no
\* worker being spawned, no first loop runs the run_immediately functions
\* again.
C14_StartWhileRunningIsNoOp ==
    [][/\ \A c \in SchedCallers :
             (spc[c] = "start_check" /\ running /\ spc'[c] # "start_check")
             => (/\ spc'[c] = "idle"
                 /\ <<running, thread, workers, jobs, registered, due>>'
                       = <<running, thread, workers, jobs, registered, due>>)
       /\ (\E w \in Workers :
              workers[w].pc = "unborn" /\ workers'[w].pc # "unborn")
             => (/\ ~ running
                 /\ Cardinality(AliveWorkers') = Cardinality(AliveWorkers) + 1
                 /\ \E c \in SchedCallers : spc[c] = "start_spawn")]_vars

\* A start() holds the lock of a scheduler that is running, its worker alive.
C14_Witness ==
    \E c \in SchedCallers :
       /\ spc[c] = "start_check"
       /\ sched_lock = c
       /\ running
       /\ Cardinality(AliveWorkers) = 1

\* --------------------------------------------------------------------- C15
\* Worker w has called the k-th function of self.jobs.
Called(w, k) ==
    \/ workers[w].i > k
    \/ workers[w].i = k /\ workers[w].pc = "job"

\* C15: a function that is in self.jobs when the worker is in its first loop
\* is called by that worker (every function called before it coming to an
\* end), and the worker goes on to the polling loop, where its first sleep
\* is, only when it has been through the whole list.
C15_ImmediateJobIsRun ==
    /\ \A w \in Workers, k \in 1..MaxJobs :
          (workers[w].pc = "pass" /\ workers[w].i <= k /\ k <= Len(jobs))
             ~> Called(w, k)
    /\ [][\A w \in Workers :
             (workers[w].pc = "pass" /\ workers'[w].pc = "check")
             => \A k \in 1..Len(jobs) : Called(w, k)]_vars

\* A worker is through its first loop and has not slept yet; the two
\* functions of self.jobs, registered with interval 0, were called.
C15_Witness ==
    \E w \in Workers :
       /\ workers[w].pc = "check"
       /\ workers[w].left = 0
       /\ Len(jobs) = 2
       /\ registered = {}
       /\ polled.due = {}
       /\ Called(w, 1) /\ Called(w, 2)

\* --------------------------------------------------------------------- C16
\* C16: a function of the first loop that raises does not end the loop: the
\* worker goes on to the next function whether the one before returned or
\* raised, and it leaves the loop only for the polling loop, having been
\* through the whole list.
C16_RaisingJobDoesNotStopThePass ==
    [][\A w \in Workers :
          /\ (workers[w].pc = "job" /\ workers'[w] # workers[w])
                => (/\ workers'[w].pc = "pass"
                    /\ workers'[w].i = workers[w].i + 1)
          /\ (workers[w].pc = "pass" /\ workers'[w].pc \notin {"pass", "job"})
                => (/\ workers'[w].pc = "check"
                    /\ workers[w].i > Len(jobs))]_vars

\* The first function of self.jobs raises, the second returns; the worker
\* has called both and is in the polling loop.
C16_Witness ==
    \E w \in Workers :
       /\ jobs = <<"j2", "j1">>
       /\ Outcome(jobs[1]) = "raise"
       /\ workers[w].i = 3
       /\ workers[w].pc \in {"check", "sleep"}

\* --------------------------------------------------------------------- C17
\* C17: at every poll, every function that was due at that poll was called,
\* whether or not one of them raised (polled is the record of the last
\* poll: the functions due at it, the ones called, the ones that raised).
C17_EveryDueJobRunsAtItsTick ==
    /\ polled.ran \subseteq polled.due
    /\ polled.raised # {} => polled.ran = polled.due

\* --------------------------------------------------------------------- C18
\* C18: a stop() that waits in join returns, whatever the worker does; the
\* call has set running to false, the join's time left is never more than
\* the timeout, and neither the call nor its return changes the position of
\* any worker: a function a worker is in goes on running.
C18_StopAlwaysReturns ==
    /\ \A c \in SchedCallers : (spc[c] = "join") ~> (spc[c] = "idle")
    /\ [][\A c \in SchedCallers :
             /\ (spc[c] = "idle" /\ spc'[c] = "join")
                   => (~ running' /\ join_left' = JoinTimeout
                       /\ workers' = workers)
             /\ (spc[c] = "join" /\ spc'[c] = "idle")
                   => (~ running' /\ workers' = workers)
             /\ (spc[c] = "join" /\ spc'[c] = "join")
                   => join_left' <= join_left]_vars

\* stop() has returned after the whole timeout while the worker is inside a
\* function of its first loop, which goes on running.
C18_Witness ==
    /\ stops = 1
    /\ \A c \in SchedCallers : spc[c] = "idle"
    /\ sched_lock = NoCaller
    /\ join_left = 0
    /\ ~ running
    /\ thread # NoWorker
    /\ workers[thread].pc = "job"

\* --------------------------------------------------------------------- C19
\* C19: a get(k) made through another FileCache instance than the one whose
\* set(k, v) wrote the key last, the key neither deleted, cleared nor damaged
\* since and the entry within its TTL, returns v.
C19_NewInstanceReadsWhatWasSet ==
    \A k \in FileKeys :
       (/\ last.op = "get"
        /\ last.key = k
        /\ k \in DOMAIN wrote
        /\ wrote[k].by # instance
        /\ now <= wrote[k].until)
          => last.ret = wrote[k].value

\* An instance created after the set has served the value: the get is the
\* first lookup of the entry and the instance that wrote it is the first.
C19_Witness ==
    \E k \in FileKeys :
       /\ last.op = "get"
       /\ last.key = k
       /\ last.branch = "hit"
       /\ k \in DOMAIN wrote
       /\ wrote[k].by = 1
       /\ instance = 2
       /\ now <= wrote[k].until
       /\ last.ret = wrote[k].value
       /\ files[k].hits = 1

\* --------------------------------------------------------------------- C20
\* The file of k is missing, or open or pickle.load fails on it.
Bad(k) == k \notin DOMAIN files \/ ~ files[k].valid

\* C20: get(k) on a missing or bad file returns None, leaves no file of k
\* behind and leaves every other key's file as it was; whatever was in the
\* directory, set(k, v) leaves a readable entry holding v, and get on a
\* readable unexpired entry returns its value.
C20_BadFileIsAMiss ==
    [][\A k \in FileKeys :
          /\ (last'.op = "get" /\ last'.key = k /\ Bad(k))
                => (/\ last'.ret = None
                    /\ k \notin DOMAIN files'
                    /\ \A j \in FileKeys \ {k} :
                          /\ j \in DOMAIN files' <=> j \in DOMAIN files
                          /\ j \in DOMAIN files => files'[j] = files[j])
          /\ (last'.op = "set" /\ last'.key = k)
                => (/\ k \in DOMAIN files'
                    /\ files'[k].valid
                    /\ files'[k].value = last'.val)
          /\ (last'.op = "get" /\ last'.key = k /\ ~ Bad(k)
               /\ ~ is_expired(files[k], now))
                => last'.ret = files[k].value]_vars

\* get has just found the file of a key damaged and removed it, and the
\* other key's entry, written before, is still there and readable.
C20_Witness ==
    \E k \in FileKeys : \E j \in FileKeys \ {k} :
       /\ last = Did("get", k, None, "corrupt")
       /\ k \notin DOMAIN files
       /\ j \in DOMAIN files
       /\ files[j].valid
       /\ j \in DOMAIN wrote
       /\ files[j].value = wrote[j].value

\* --------------------------------------------------------------------- C21
\* C21: at every point during and after a set, the file of a key is a whole
\* entry pickle.load accepts, or there is no file.
C21_FileIsNeverPartial ==
    \A k \in DOMAIN files : files[k].valid

\* --------------------------------------------------------------------- C22
FailedSet == {"open_failed", "write_failed"}

\* C22: set returns None whether the write succeeded or failed, and the get
\* of the key that follows a failed set returns None, no file of the key
\* being left, or the value of the last set that succeeded.
C22_SetNeverRaises ==
    [][/\ last'.op = "set" => last'.ret = None
       /\ \A k \in FileKeys :
             (/\ last.op = "set" /\ last.key = k /\ last.branch \in FailedSet
              /\ last'.op = "get" /\ last'.key = k)
                => \/ last'.ret = None /\ k \notin DOMAIN files'
                   \/ /\ k \in DOMAIN wrote
                      /\ last'.ret = wrote[k].value]_vars

\* A set whose pickle.dump failed has returned None; the file it opened is
\* left truncated.
C22_Witness ==
    /\ last.op = "set"
    /\ last.branch = "write_failed"
    /\ last.ret = None
    /\ fw.pc = "idle"
    /\ ~ files[last.key].valid

\* --------------------------------------------------------------------- C23
\* C23: the get(k) that follows set(k, v, 0) returns None, in MemoryCache and
\* in FileCache (0 is the ttl argument as the caller passed it).
C23_ZeroTtlIsNeverServed ==
    [][\A k \in Keys :
          (/\ last.op = "set" /\ last.key = k /\ last.ttl = 0
           /\ last'.op = "get" /\ last'.key = k)
             => last'.ret = None]_vars

\* --------------------------------------------------------------------- C24
\* The keys of the access order.
Ordered == {access_order[i] : i \in 1..Len(access_order)}

\* C24: the access order of a MemoryCache holds the keys of the mapping,
\* each of them once.
C24_OrderHoldsTheKeysOnce ==
    /\ Ordered = DOMAIN cache
    /\ Len(access_order) = Cardinality(DOMAIN cache)

\* A MemoryCache that held two keys has lost one of them to delete, to the
\* sweep or to a lookup that found it expired; one key is left, in the
\* mapping and in the order.
C24_Witness ==
    /\ store = "memory"
    /\ max_size = 2
    /\ last.op \in {"delete", "cleanup_expired", "get"}
    /\ Cardinality(DOMAIN cache) = 1
    /\ Len(access_order) = 1
    /\ recency # Empty
    /\ \/ last.op = "delete" /\ last.ret = "True"
       \/ last.op = "cleanup_expired" /\ last.n > 0
       \/ last.op = "get" /\ last.branch = "expired"

\* --------------------------------------------------------------------- C25
\* The balance acquire starts from: the balance held plus what accrued since
\* last_refill, at most the capacity (in the unit of `tokens`).
StartBalance ==
    Min(requests_per_window * window_seconds,
        tokens + (now - last_refill) * requests_per_window)

\* C25: an acquire(n) that returns False leaves the balance it started
\* from; one that returns True leaves that balance less n; and it returns
\* True exactly when that balance covers n.
C25_RefusedAcquireDeductsNothing ==
    [][rl_last'.op = "acquire" =>
          /\ rl_last'.ok <=> StartBalance >= rl_last'.n * window_seconds
          /\ ~ rl_last'.ok => tokens' = StartBalance
          /\ rl_last'.ok => tokens' = StartBalance - rl_last'.n * window_seconds
          /\ last_refill' = now]_vars

\* An acquire was refused while the bucket held part of what it asked for,
\* and the bucket still holds that part.
C25_Witness ==
    /\ rl_last.op = "acquire"
    /\ ~ rl_last.ok
    /\ rl_last.refilled > 0
    /\ tokens = rl_last.refilled
    /\ tokens < Cost(rl_last.n)

\* --------------------------------------------------------------------- C26
\* C26: wait_time(n) returns 0 when the tokens held cover n, and otherwise
\* the shortfall times window / capacity (rl_last.wait counts the result in
\* 1/requests_per_window of a second, tokens the balance in 1/window_seconds
\* of a token); with capacity 1, the wait_time(1) that follows a successful
\* acquire(1) is above 0 and at most the window.
C26_WaitTimeIsTheShortfall ==
    [][rl_last'.op = "wait_time" =>
          /\ tokens >= rl_last'.n * window_seconds => rl_last'.wait = 0
          /\ tokens < rl_last'.n * window_seconds
                => rl_last'.wait = rl_last'.n * window_seconds - tokens
          /\ (/\ requests_per_window = 1
              /\ rl_last.op = "acquire" /\ rl_last.ok /\ rl_last.n = 1
              /\ rl_last'.n = 1)
                => (/\ 0 < rl_last'.wait
                    /\ rl_last'.wait <= window_seconds * requests_per_window)
          /\ UNCHANGED <<tokens, last_refill>>]_vars

\* wait_time(2) on a bucket of capacity 2 that holds two thirds of a token:
\* the shortfall is four thirds of a token, the wait two seconds.
C26_Witness ==
    /\ requests_per_window = 2
    /\ window_seconds = 3
    /\ tokens = 2
    /\ rl_last.op = "wait_time"
    /\ rl_last.n = 2
    /\ rl_last.wait = 4

\* --------------------------------------------------------------------- C27
\* C27: wait_time(n) returns 0 whenever an acquire(n) made at the same
\* instant would return True, the tokens accrued since last_refill counted.
C27_WaitTimeCountsAccruedTokens ==
    [][(/\ rl_last'.op = "wait_time"
        /\ StartBalance >= rl_last'.n * window_seconds)
          => rl_last'.wait = 0]_vars

\* --------------------------------------------------------------------- C28
\* C28: a wrapper call that missed on a key and stores its result when the
\* key has been stored in the meantime (by the caller that missed on it at
\* the same time) leaves one entry for the key, holding the value of this
\* last set, and leaves the entries of the other keys as they were.
C28_LastSetWinsOthersUntouched ==
    [][\A c \in Callers :
          (/\ cpc[c].pc = "store"
           /\ cpc'[c].pc = "idle"
           /\ cpc[c].key \in DOMAIN Held)
             => (/\ cpc[c].key \in DOMAIN Held'
                 /\ Held'[cpc[c].key].value = cpc[c].will
                 /\ \A j \in (DOMAIN Held) \ {cpc[c].key} :
                       /\ j \in DOMAIN Held'
                       /\ Held'[j] = Held[j])]_vars

\* --------------------------------------------------------------------- C29
\* Worker w is in its first loop.
InPass(w) == workers[w].pc \in {"pass", "job"}

\* C29: add_job only appends to self.jobs, also while a worker is in its
\* first loop, so the functions the worker has been through keep their
\* places; the worker goes through the list one place at a time, calling
\* the function at each place once, does not end in the loop, and gets
\* through every function that was in the list when the loop began (the
\* functions it calls coming to an end).
C29_AddJobDuringThePassIsSafe ==
    /\ [][/\ jobs' # jobs
             => (/\ Len(jobs') = Len(jobs) + 1
                 /\ \A k \in 1..Len(jobs) : jobs'[k] = jobs[k])
          /\ \A w \in Workers :
                InPass(w) =>
                   /\ workers'[w].pc # "dead"
                   /\ workers'[w].i \in {workers[w].i, workers[w].i + 1}
                   /\ workers'[w].i = workers[w].i + 1
                         <=> (workers[w].pc = "job" /\ workers'[w].pc = "pass")
                   /\ workers'[w].pc = "job" => workers'[w].i <= Len(jobs')]_vars
    /\ \A w \in Workers, k \in 1..MaxJobs :
          (workers[w].pc = "pass" /\ workers[w].i = 1 /\ k <= Len(jobs))
             ~> (workers[w].i > k)

\* A worker is inside a function of its first loop, the first of the list,
\* and the list holds a second function, which the worker has not reached.
C29_Witness ==
    \E w \in Workers :
       /\ workers[w].pc = "job"
       /\ workers[w].i = 1
       /\ Len(jobs) = 2

\* --------------------------------------------------------------------- C30
\* C30: every run of cleanup_caches calls cleanup_expired on the memory
\* cache and on the file cache, and once the module is imported with the
\* scheduler enabled, cleanup_caches is registered with an interval of six
\* hours.
C30_CleanupSweepsBothCaches ==
    /\ swept.run => (swept.memory_called /\ swept.file_called)
    /\ (module = "loaded" /\ cfg.schedule_enabled = "truthy")
          => maint = [registered |-> TRUE, interval |-> 6]

\* --------------------------------------------------------------------- C32
\* C32: MemoryCache.set on a key that is in the mapping gives the key a new
\* entry, stamped with the time of the call, and leaves the key set of the
\* mapping as it was.
C32_ReplacingEvictsNothing ==
    [][\A k \in Keys :
          (/\ store = "memory"
           /\ last'.op = "set" /\ last'.key = k
           /\ k \in DOMAIN cache)
             => (/\ DOMAIN cache' = DOMAIN cache
                 /\ cache'[k].value = last'.val
                 /\ cache'[k].timestamp = now)]_vars

\* --------------------------------------------------------------------- C37
\* C37: the get(k) that follows a failed set(k, ...) returns the value of the
\* last set of k that succeeded, as long as that entry has not expired.
C37_FailedSetKeepsTheOldEntry ==
    [][\A k \in FileKeys :
          (/\ last.op = "set" /\ last.key = k /\ last.branch \in FailedSet
           /\ last'.op = "get" /\ last'.key = k
           /\ k \in DOMAIN wrote
           /\ now <= wrote[k].until)
             => last'.ret = wrote[k].value]_vars

\* --------------------------------------------------------------------- C35
\* The keys cleanup_expired has to remove at clock t: those whose entry is
\* older than its ttl and, in the directory, those whose file does not load.
ToSweep(c, t) ==
    {k \in DOMAIN c : ~ c[k].valid \/ t - c[k].timestamp > c[k].ttl}

Swept(c, d) ==
    /\ DOMAIN d = (DOMAIN c) \ ToSweep(c, now)
    /\ \A k \in DOMAIN d : d[k] = c[k]
    /\ last'.n = Cardinality(ToSweep(c, now))

\* C35: cleanup_expired removes the entries that are expired at the time of
\* the call (and the files that do not load) and no other, returns how many
\* it removed, and leaves value, timestamp, ttl and hit count of the entries
\* that stay as they were; the access order loses the removed keys only.
C35_CleanupRemovesTheExpiredOnly ==
    [][last'.op = "cleanup_expired"
          => IF store = "memory"
             THEN /\ Swept(cache, cache')
                  /\ access_order'
                        = SelectSeq(access_order,
                                    LAMBDA k : k \notin ToSweep(cache, now))
             ELSE Swept(files, files')]_vars

\* cleanup_expired has removed an expired entry of the MemoryCache and left
\* one that had been read and had not expired.
C35_Witness ==
    /\ store = "memory"
    /\ last.op = "cleanup_expired"
    /\ last.n >= 1
    /\ \E k \in DOMAIN cache : cache[k].hits >= 1 /\ cache[k].timestamp < now

\* --------------------------------------------------------------------- C38
\* C38: set evicts when the mapping holds max_size entries, expired ones
\* counted, and what it evicts is the head of the access order (the order
\* without the key being set), whether that entry has expired or not and
\* whether another entry has.
C38_EvictionGoesByRecencyOnly ==
    [][(store = "memory" /\ last'.op = "set")
          => LET o == Discard(access_order, last'.key)
             IN /\ last'.evicted
                      = IF Cardinality(DOMAIN cache) >= max_size /\ o # <<>>
                        THEN {Head(o)} ELSE {}
                /\ DOMAIN cache'
                      = ((DOMAIN cache) \ last'.evicted) \cup {last'.key}]_vars

\* A set has evicted an entry and left an expired one in the mapping.
C38_Witness ==
    /\ store = "memory"
    /\ last.op = "set"
    /\ last.evicted # {}
    /\ \E j \in (DOMAIN cache) \ {last.key} : is_expired(cache[j], now)

\* --------------------------------------------------------------------- C39
\* C39: a result of None is stored like any other, under the key and stamped
\* with the time of the store, but no lookup is served from an entry that
\* holds None: the call goes on to the function.
C39_NoneIsStoredButNeverServed ==
    [][\A c \in Callers, k \in CachedKeys :
          /\ (/\ cpc[c].pc = "idle"
              /\ cl_last'.step = "lookup"
              /\ cl_last'.caller = c
              /\ cl_last'.key = k
              /\ k \in DOMAIN Held
              /\ Held[k].value = None)
                => (cpc'[c].pc = "run" /\ cl_last'.outcome = "miss")
          /\ (/\ cpc[c].pc = "store"
              /\ cpc[c].key = k
              /\ cpc[c].will = None
              /\ cpc'[c].pc = "idle")
                => (/\ k \in DOMAIN Held'
                    /\ Held'[k].value = None
                    /\ Held'[k].timestamp = now)]_vars

\* The lookup of a call has found the None an earlier call stored, within its
\* ttl, and has sent the call on to the function.
C39_Witness ==
    \E c \in Callers :
       /\ cpc[c].pc = "run"
       /\ cl_last = Step(c, "lookup", cpc[c].key, "miss", None)
       /\ last.op = "get"
       /\ last.branch = "hit"
       /\ cpc[c].key \in DOMAIN Held
       /\ Held[cpc[c].key].value = None
       /\ ~ is_expired(Held[cpc[c].key], now)

\* --------------------------------------------------------------------- C36
\* The tokens the logged acquire calls granted from clock t1 to clock t2.
RECURSIVE GrantedUpTo(_, _, _)
GrantedUpTo(i, t1, t2) ==
    IF i = 0 THEN 0
    ELSE GrantedUpTo(i - 1, t1, t2)
           + (IF rl_log[i].ok /\ t1 <= rl_log[i].t /\ rl_log[i].t <= t2
              THEN rl_log[i].n ELSE 0)

Granted(t1, t2) == GrantedUpTo(Len(rl_log), t1, t2)

\* C36: whatever acquire calls are made, the tokens granted in an interval of
\* length T are at most requests_per_window + T * requests_per_window /
\* window_seconds (both sides multiplied by window_seconds here), and every
\* acquire, refused or not, sets last_refill to the time of the call.
C36_GrantsStayUnderTheBucketBound ==
    /\ [](\A t1 \in 0..MaxClock : \A t2 \in t1..MaxClock :
             Granted(t1, t2) * window_seconds
                <= Capacity + (t2 - t1) * requests_per_window)
    /\ [][rl_log' # rl_log => last_refill' = now]_vars

\* RateLimiter(2, 3): the calls of a window of three seconds were granted
\* 2 + 3 * 2/3 = 4 tokens, the most the bound allows, and one was refused in
\* between.
C36_Witness ==
    /\ requests_per_window = 2
    /\ \E t1 \in 0..MaxClock : \E t2 \in (t1 + 1)..MaxClock :
          /\ Granted(t1, t2) * window_seconds
                = Capacity + (t2 - t1) * requests_per_window
          /\ \E i \in 1..Len(rl_log) :
                ~ rl_log[i].ok /\ t1 < rl_log[i].t /\ rl_log[i].t < t2

\* --------------------------------------------------------------------- C33
\* C33: a worker that is alive when stop() is called (alive while the caller
\* of stop() is in the join) ends, the functions it calls coming to an end
\* and its sleep ending, whether or not start() is called again before the
\* worker has woken up.  In the code the worker reads self.running after the
\* sleep, and a start() made in between has set it to true again.
C33_StoppedWorkerExits ==
    \A w \in Workers : (Joining /\ Alive(w)) ~> (workers[w].pc = "dead")

\* --------------------------------------------------------------------- C34
\* Worker w makes a poll: schedule.run_pending(), then the sleep.
Polls(w) == workers[w].pc = "check" /\ workers'[w].pc = "sleep"

\* C34: a poll calls the registered functions whose interval has elapsed
\* since registration or since their last run, all of them and no other, and
\* a function a poll has called is not due again before its interval has
\* elapsed anew.  In the code a function that raises stays due and is called
\* again at the next poll, a minute later, and the functions behind it in
\* that poll are not called.
C34_DueJobsRunAtTheirTickOnly ==
    [][\A w \in Workers :
          Polls(w) => (/\ polled'.ran = due
                       /\ polled'.ran \cap due' = {})]_vars

\* --------------------------------------------------------------------- C40
\* Thread t of instance s makes a poll.
TsPolls(s, t) ==
    ts[s].threads[t].pc = "check" /\ ts'[s].threads[t].pc = "sleep"

C31_OneInstanceForAllCallers ==
    /\ built <= 1
    /\ \A t \in Threads, u \in Threads :
          (got[t] # NoInstance /\ got[u] # NoInstance) => got[t] = got[u]
====
